---------------------------- MODULE Spec2Model ----------------------------
(***************************************************************************)
(* A model of the evolve-native neuroevolution core (Rust):                *)
(*   - nsga2.rs        non-dominated sorting and the rank map              *)
(*   - neat_genome.rs  compatibility distance, crossover, mutation         *)
(*   - neat_species.rs speciation                                          *)
(*   - neural_network.rs  the fixed-topology network                       *)
(*   - neat_network.rs    the variable-topology network                    *)
(* Each operation has a specification of its own; the variables the        *)
(* operation does not touch are held at their initial values.              *)
(***************************************************************************)
EXTENDS Integers, Sequences, FiniteSets, TLC

VARIABLES
    \* ---- nsga2.rs ----
    objectives,        \* the Array of Vector3 handed to non_dominated_sort
    pc,                \* position inside non_dominated_sort: "start", "loop", "done"
    domination_count,  \* Vec<i32>, indexed by individual 0..n-1
    dominated_set,     \* Vec<Vec<i32>>, indexed by individual 0..n-1
    current_front,     \* Vec<i32>
    fronts,            \* the VarArray of fronts built so far
    rank_call,         \* the last build_rank_map call: its arguments and result
    \* ---- neat_genome.rs ----
    gene_heap,         \* the connection-gene Dictionaries, by handle 1..Len(gene_heap)
    genomes,           \* the genome Dictionaries, by handle 1..Len(genomes)
    dist_calls,        \* the distance calls made so far: arguments and results
    cross_call,        \* the crossover call made, if any: arguments and result
    mut_call,          \* the mutate call made, if any: arguments, draws, state before
    \* ---- neat_species.rs ----
    spec_args,         \* existing_species, config and next_species_id of the first call
    spec_calls,        \* the speciate calls made so far: arguments, draws and results
    \* ---- neural_network.rs ----
    nn,                \* the RustNeuralNetwork object: sizes, weights, buffers
    nn_calls,          \* the calls made on it so far: arguments, results, state around
    \* ---- neat_network.rs ----
    neat,              \* the RustNeatNetwork object built by create
    neat_calls,        \* the calls made on it so far: arguments, results, state around
    \* ---- the static operations of nsga2.rs, genetic_ops.rs, crossover_with ----
    op_call            \* the call under way or made: operation, arguments, draws, result

nsgaVars == <<objectives, pc, domination_count, dominated_set, current_front,
              fronts, rank_call>>

genomeVars == <<gene_heap, genomes, dist_calls, cross_call, mut_call>>

speciesVars == <<spec_args, spec_calls>>

netVars == <<nn, nn_calls, neat, neat_calls>>

opsVars == <<op_call>>

vars == <<nsgaVars, genomeVars, speciesVars, netVars, opsVars>>

(***************************************************************************)
(* Bounds of the model.                                                    *)
(***************************************************************************)
\* largest population handed to non_dominated_sort
MaxPop == 3
\* longest list of fronts handed to build_rank_map directly
MaxFronts == 2
\* a large genome carries PadLen genes beyond its core genes
PadLen == 18
\* probabilities (rates and uniform draws) are counted in units of 1/RateOne
RateOne == 2

\* objective values used for the three components of a Vector3 (f32 values;
\* only their order is read by nsga2.rs, so small integers stand for them)
ObjVals == {0, 1}

(***************************************************************************)
(* Helpers                                                                 *)
(***************************************************************************)
\* 0-based indexing of a sequence, as Rust indexes a Vec
At(s, i) == s[i + 1]

Range(s) == {s[k] : k \in 1..Len(s)}

\* all sequences over S of length 0..k
RECURSIVE SeqsUpTo(_, _)
SeqsUpTo(S, k) ==
    IF k = 0 THEN {<<>>}
    ELSE LET shorter == SeqsUpTo(S, k - 1)
         IN  shorter \cup {Append(s, x) : s \in {t \in shorter : Len(t) = k - 1}, x \in S}

(***************************************************************************)
(* f32 arithmetic (neat_genome.rs keeps weights, coefficients and the      *)
(* distance in f32).  A finite f32 is <<m, e>>, standing for m * 2^e, with *)
(* m = 0 (and e = 0) or 2^23 <= |m| < 2^24.  Every operation rounds the    *)
(* exact result to nearest, ties to even, as IEEE 754 binary32 does.       *)
(* Exponent overflow and underflow, NaN and the sign of zero are outside   *)
(* the values the model uses.                                              *)
(***************************************************************************)
\* significand width of an f32
F32Bits == 24

\* the powers of two 2^0 .. 2^30
P2 == [k \in 0..30 |-> 2 ^ k]

Abs(x) == IF x < 0 THEN -x ELSE x

Sign(x) == IF x < 0 THEN -1 ELSE 1

\* the number of bits of M (0 < M < 2^31), looked for from k bits on
RECURSIVE BitLenFrom(_, _)
BitLenFrom(M, k) == IF k > 30 \/ M < P2[k] THEN k ELSE BitLenFrom(M, k + 1)

BitLen(M) == IF M >= P2[F32Bits - 1] THEN BitLenFrom(M, F32Bits) ELSE BitLenFrom(M, 1)

F32Zero == <<0, 0>>

\* M * 2^E (M >= 0), plus a nonzero amount below one unit of M when sticky,
\* rounded to an f32
F32Round(M, E, sticky) ==
    IF M = 0 THEN F32Zero
    ELSE LET L == BitLen(M) IN
         IF L <= F32Bits
         THEN <<M * P2[F32Bits - L], E - (F32Bits - L)>>
         ELSE LET k    == L - F32Bits
                  q    == M \div P2[k]
                  r    == M % P2[k]
                  half == P2[k - 1]
                  up   == r > half \/ (r = half /\ (sticky \/ q % 2 = 1))
                  q2   == IF up THEN q + 1 ELSE q
              IN  IF q2 = P2[F32Bits] THEN <<P2[F32Bits - 1], E + k + 1>>
                  ELSE <<q2, E + k>>

F32Signed(sgn, x) == <<sgn * x[1], x[2]>>

F32Neg(x) == <<-x[1], x[2]>>

F32Abs(x) == <<Abs(x[1]), x[2]>>

\* an integer as an f32 ("excess as f32")
F32FromInt(k) == F32Signed(Sign(k), F32Round(Abs(k), 0, FALSE))

\* x + y
F32Add(x, y) ==
    IF x[1] = 0 THEN y
    ELSE IF y[1] = 0 THEN x
    ELSE LET hi == IF x[2] >= y[2] THEN x ELSE y
             lo == IF x[2] >= y[2] THEN y ELSE x
             d  == hi[2] - lo[2]
         IN  IF d <= 3
             THEN LET S == hi[1] * P2[d] + lo[1]
                  IN  F32Signed(Sign(S), F32Round(Abs(S), lo[2], FALSE))
             ELSE LET sh   == IF d - 3 > 25 THEN 25 ELSE d - 3
                      H    == Abs(hi[1]) * 8
                      Lmag == Abs(lo[1]) \div P2[sh]
                      st   == (Abs(lo[1]) % P2[sh]) # 0
                      M    == IF Sign(hi[1]) = Sign(lo[1]) THEN H + Lmag
                              ELSE IF st THEN H - Lmag - 1
                              ELSE H - Lmag
                  IN  F32Signed(Sign(hi[1]), F32Round(M, hi[2] - 3, st))

\* x - y
F32Sub(x, y) == F32Add(x, F32Neg(y))

\* x < y
F32Less(x, y) == F32Sub(x, y)[1] < 0

\* x / (n as f32), for a count 1 <= n <= 32
F32DivInt(x, n) ==
    LET A == Abs(x[1]) * 128
    IN  F32Signed(Sign(x[1]), F32Round(A \div n, x[2] - 7, (A % n) # 0))

\* (c as f32) * x, for an integer 0 <= c <= 127
F32MulInt(c, x) == F32Signed(Sign(x[1]), F32Round(c * Abs(x[1]), x[2], FALSE))

\* x.clamp(lo, hi)
F32Clamp(x, lo, hi) ==
    IF F32Less(x, lo) THEN lo ELSE IF F32Less(hi, x) THEN hi ELSE x

(***************************************************************************)
(* nsga2.rs: dominates                                                     *)
(***************************************************************************)
\* a plausible slip: ">=" on the strictness test, so equal vectors dominate
DominatesNonStrict(a, b) ==
    a[1] >= b[1] /\ a[2] >= b[2] /\ a[3] >= b[3]

Dominates(a, b) ==
    /\ a[1] >= b[1] /\ a[2] >= b[2] /\ a[3] >= b[3]
    /\ (a[1] > b[1] \/ a[2] > b[2] \/ a[3] > b[3])

(***************************************************************************)
(* nsga2.rs: non_dominated_sort                                            *)
(***************************************************************************)
\* the pairwise comparison loops (for i in 0..n, for j in i+1..n), from the
\* loop position (i, j) on; st = [cnt |-> domination_count, dom |-> dominated_set]
RECURSIVE PairwiseFrom(_, _, _, _)
PairwiseFrom(objs, i, j, st) ==
    LET n == Len(objs) IN
    IF i >= n THEN st
    ELSE IF j >= n THEN PairwiseFrom(objs, i + 1, i + 2, st)
    ELSE IF Dominates(At(objs, i), At(objs, j))
         THEN PairwiseFrom(objs, i, j + 1,
                  [cnt |-> [st.cnt EXCEPT ![j] = @ + 1],
                   dom |-> [st.dom EXCEPT ![i] = Append(@, j)]])
    ELSE IF Dominates(At(objs, j), At(objs, i))
         THEN PairwiseFrom(objs, i, j + 1,
                  [cnt |-> [st.cnt EXCEPT ![i] = @ + 1],
                   dom |-> [st.dom EXCEPT ![j] = Append(@, i)]])
    ELSE PairwiseFrom(objs, i, j + 1, st)

PairwiseComparison(objs) ==
    LET n == Len(objs) IN
    PairwiseFrom(objs, 0, 1, [cnt |-> [k \in 0..(n - 1) |-> 0],
                              dom |-> [k \in 0..(n - 1) |-> <<>>]])

\* the indices i in i..n-1 whose count is 0, in increasing order
RECURSIVE ZeroCountFrom(_, _, _)
ZeroCountFrom(cnt, i, n) ==
    IF i >= n THEN <<>>
    ELSE IF cnt[i] = 0 THEN <<i>> \o ZeroCountFrom(cnt, i + 1, n)
    ELSE ZeroCountFrom(cnt, i + 1, n)

\* a plausible slip: count <= 1 instead of count == 0 when seeding front 0
ZeroCountLoose(cnt, n) ==
    SelectSeq([k \in 1..n |-> k - 1], LAMBDA i : cnt[i] <= 1)

FirstFront(cnt, n) == ZeroCountFrom(cnt, 0, n)

\* a plausible slip: the released individual joins the next front at once,
\* without waiting for its count to reach 0
RECURSIVE ReleaseEager(_, _)
ReleaseEager(js, st) ==
    IF js = <<>> THEN st
    ELSE LET j == Head(js)
             c == st.cnt[j] - 1
         IN  ReleaseEager(Tail(js),
                 [cnt  |-> [st.cnt EXCEPT ![j] = c],
                  next |-> Append(st.next, j)])

\* the inner loop "for &j in &dominated_set[i]": st = [cnt, next]
RECURSIVE ReleaseDominated(_, _)
ReleaseDominated(js, st) ==
    IF js = <<>> THEN st
    ELSE LET j == Head(js)
             c == st.cnt[j] - 1
         IN  ReleaseDominated(Tail(js),
                 [cnt  |-> [st.cnt EXCEPT ![j] = c],
                  next |-> IF c = 0 THEN Append(st.next, j) ELSE st.next])

\* the outer loop "for &i in &current_front"
RECURSIVE NextFront(_, _, _)
NextFront(front, dom, st) ==
    IF front = <<>> THEN st
    ELSE NextFront(Tail(front), dom, ReleaseDominated(dom[Head(front)], st))

\* non_dominated_sort up to the while loop: n == 0 returns at once
SortStart ==
    /\ pc = "start"
    /\ LET n == Len(objectives) IN
       IF n = 0
       THEN /\ pc' = "done"
            /\ UNCHANGED <<domination_count, dominated_set, current_front, fronts>>
       ELSE LET pw == PairwiseComparison(objectives) IN
            /\ domination_count' = pw.cnt
            /\ dominated_set' = pw.dom
            /\ current_front' = FirstFront(pw.cnt, n)
            /\ fronts' = <<>>
            /\ pc' = "loop"
    /\ UNCHANGED <<objectives, rank_call, genomeVars, speciesVars, netVars, opsVars>>

\* one iteration of "while !current_front.is_empty()"
SortLoop ==
    /\ pc = "loop"
    /\ current_front # <<>>
    /\ LET st == NextFront(current_front, dominated_set,
                           [cnt |-> domination_count, next |-> <<>>]) IN
       /\ fronts' = Append(fronts, current_front)
       /\ domination_count' = st.cnt
       /\ current_front' = st.next
    /\ UNCHANGED <<objectives, pc, dominated_set, rank_call, genomeVars, speciesVars, netVars, opsVars>>

\* the loop condition fails: return fronts
SortReturn ==
    /\ pc = "loop"
    /\ current_front = <<>>
    /\ pc' = "done"
    /\ UNCHANGED <<objectives, domination_count, dominated_set, current_front,
                   fronts, rank_call, genomeVars, speciesVars, netVars, opsVars>>

(***************************************************************************)
(* nsga2.rs: build_rank_map                                                *)
(***************************************************************************)
\* "for idx in front.as_slice()": i = *idx as usize, so a negative idx
\* becomes a huge usize and fails i < n
\* a plausible slip: ranks counted from 1
RECURSIVE RankFrontFromOne(_, _, _, _)
RankFrontFromOne(front, rank, n, ranks) ==
    IF front = <<>> THEN ranks
    ELSE LET idx == Head(front) IN
         RankFrontFromOne(Tail(front), rank, n,
                          IF idx >= 0 /\ idx < n THEN [ranks EXCEPT ![idx] = rank + 1]
                          ELSE ranks)

RECURSIVE RankFront(_, _, _, _)
RankFront(front, rank, n, ranks) ==
    IF front = <<>> THEN ranks
    ELSE LET idx == Head(front) IN
         RankFront(Tail(front), rank, n,
                   IF idx >= 0 /\ idx < n THEN [ranks EXCEPT ![idx] = rank]
                   ELSE ranks)

RECURSIVE RankFronts(_, _, _, _)
RankFronts(fs, rank, n, ranks) ==
    IF rank >= Len(fs) THEN ranks
    ELSE RankFronts(fs, rank + 1, n, RankFront(At(fs, rank), rank, n, ranks))

\* a plausible slip: the default rank is the last front's position
BuildRankMapDefaultLast(fs, pop_size) ==
    RankFronts(fs, 0, pop_size, [k \in 0..(pop_size - 1) |-> Len(fs) - 1])

BuildRankMap(fs, pop_size) ==
    RankFronts(fs, 0, pop_size, [k \in 0..(pop_size - 1) |-> Len(fs)])

\* front lists handed to build_rank_map directly: no index in two fronts
\* (what a sort returns), entries possibly outside 0..pop_size-1
FrontEntries == (-1)..MaxPop

FrontLists ==
    {fs \in SeqsUpTo(SeqsUpTo(FrontEntries, 2), MaxFronts) :
        /\ \A k \in 1..Len(fs) : Cardinality(Range(fs[k])) = Len(fs[k])
        /\ \A k, l \in 1..Len(fs) : k # l => Range(fs[k]) \cap Range(fs[l]) = {}}

\* build_rank_map on the fronts of the finished sort
RankOfSort ==
    /\ pc = "done"
    /\ \E pop_size \in 0..(MaxPop + 1) :
          rank_call' = [fronts |-> fronts, pop_size |-> pop_size, returned |-> TRUE,
                        ranks |-> BuildRankMap(fronts, pop_size)]
    /\ UNCHANGED <<objectives, pc, domination_count, dominated_set,
                   current_front, fronts, genomeVars, speciesVars, netVars, opsVars>>

\* build_rank_map on a front list supplied by the caller (a static function:
\* it reads nothing but its arguments, which rank_call holds)
RankOfGiven ==
    /\ ~rank_call.returned
    /\ rank_call' = [rank_call EXCEPT
                        !.ranks = BuildRankMap(rank_call.fronts, rank_call.pop_size),
                        !.returned = TRUE]
    /\ UNCHANGED <<objectives, pc, domination_count, dominated_set,
                   current_front, fronts, genomeVars, speciesVars, netVars, opsVars>>

(***************************************************************************)
(* Specification of the nsga2.rs operations                                *)
(***************************************************************************)
Vector3s == {<<x, y, z>> : x \in ObjVals, y \in ObjVals, z \in ObjVals}

\* the objectives of test_non_dominated_sort_logic, scaled by 2
TestObjectives == <<<<6, 6, 6>>, <<2, 2, 2>>, <<4, 1, 4>>, <<1, 1, 1>>>>

NoRankCall == [fronts |-> <<>>, pop_size |-> 0, returned |-> TRUE, ranks |-> <<>>]

\* no genome operation is under way
\* no network is built
NetIdle ==
    /\ nn = [input_size |-> 0]
    /\ nn_calls = <<>>
    /\ neat = [node_order |-> <<>>]
    /\ neat_calls = <<>>

\* no static operation is called
OpsIdle == op_call = [op |-> "none"]

\* no speciate call is made
SpeciesIdle ==
    /\ spec_args = [existing_species |-> <<>>]
    /\ spec_calls = <<>>

GenomeIdle ==
    /\ gene_heap = <<>>
    /\ genomes = <<>>
    /\ dist_calls = <<>>
    /\ cross_call = [called |-> FALSE]
    /\ mut_call = [called |-> FALSE]
    /\ SpeciesIdle

\* no nsga2.rs operation is under way
NsgaIdle ==
    /\ objectives = <<>>
    /\ pc = "start"
    /\ domination_count = <<>>
    /\ dominated_set = <<>>
    /\ current_front = <<>>
    /\ fronts = <<>>

InitNsga ==
    /\ objectives \in SeqsUpTo(Vector3s, MaxPop) \cup {TestObjectives}
    /\ pc = "start"
    /\ domination_count = <<>>
    /\ dominated_set = <<>>
    /\ current_front = <<>>
    /\ fronts = <<>>
    /\ rank_call = NoRankCall
    /\ GenomeIdle
    /\ NetIdle
    /\ OpsIdle

NextNsga ==
    \/ SortStart
    \/ SortLoop
    \/ SortReturn
    \/ RankOfSort

SpecNsga == InitNsga /\ [][NextNsga]_vars

\* the sort runs to completion once called: the code is synchronous
FairSpecNsga == SpecNsga /\ WF_vars(SortStart \/ SortLoop \/ SortReturn)

(***************************************************************************)
(* Specification of build_rank_map on caller-supplied front lists          *)
(***************************************************************************)
InitRankMap ==
    /\ NsgaIdle
    /\ GenomeIdle
    /\ NetIdle
    /\ OpsIdle
    /\ \E fs \in FrontLists, pop_size \in 0..(MaxPop + 1) :
          rank_call = [fronts |-> fs, pop_size |-> pop_size, returned |-> FALSE,
                       ranks |-> <<>>]

NextRankMap == RankOfGiven

SpecRankMap == InitRankMap /\ [][NextRankMap]_vars

(***************************************************************************)
(* neat_genome.rs: the genome data                                         *)
(*                                                                         *)
(* A genome is a Dictionary whose "connections" Array holds handles of     *)
(* connection-gene Dictionaries; gene_heap maps a handle to the gene's     *)
(* fields.                                                                 *)
(***************************************************************************)
\* f32 values used as weights: 0.0, 2^-23, 1.0, 2.0
W0 == F32Zero
WTiny == <<P2[F32Bits - 1], -46>>
W1 == <<P2[F32Bits - 1], -23>>
W2 == <<P2[F32Bits - 1], -22>>

\* a genome Dictionary: its "connections" Array (of gene handles), "nodes"
\* (node ids), "input_count", "output_count" and "fitness" (an f32 that is only
\* compared; an integer stands for it)
NewGenome(conns, nodes, fitness) ==
    [connections |-> conns, nodes |-> nodes, input_count |-> 2, output_count |-> 1,
     fitness |-> fitness]

\* the connection genes a genome handle refers to, as values
ConnsOf(heap, g) == [k \in 1..Len(g.connections) |-> heap[g.connections[k]]]

(***************************************************************************)
(* neat_genome.rs: neat_distance                                           *)
(***************************************************************************)
\* the HashMap<i32, ConnectionGene> filled by insert, a later gene replacing
\* an earlier one of the same innovation
RECURSIVE InnovMapFrom(_, _, _)
InnovMapFrom(conns, k, m) ==
    IF k > Len(conns) THEN m
    ELSE LET c == conns[k] IN
         InnovMapFrom(conns, k + 1,
             [i \in (DOMAIN m) \cup {c.innovation} |->
                 IF i = c.innovation THEN [weight |-> c.weight] ELSE m[i]])

InnovMap(conns) == InnovMapFrom(conns, 1, <<>>)

\* max_innov: starts at 0, max_innov.max(innovation) per gene
RECURSIVE MaxInnovFrom(_, _, _)
MaxInnovFrom(conns, k, mx) ==
    IF k > Len(conns) THEN mx
    ELSE MaxInnovFrom(conns, k + 1,
                      IF conns[k].innovation > mx THEN conns[k].innovation ELSE mx)

MaxInnovOf(conns) == MaxInnovFrom(conns, 1, 0)

Min(x, y) == IF x < y THEN x ELSE y

Max(x, y) == IF x > y THEN x ELSE y

\* a plausible slip: the weight of b is left out of the difference
WeightDiffTermNoB(a, b) == F32Abs(a.weight)

\* (a.weight - b.weight).abs()
WeightDiffTerm(a, b) == F32Abs(F32Sub(a.weight, b.weight))

\* a plausible slip: the excess bound taken from genome a alone
ExcessBoundOfA(max_innov_a, max_innov_b) == max_innov_a

\* max_innov_a.min(max_innov_b)
ExcessBound(max_innov_a, max_innov_b) == Min(max_innov_a, max_innov_b)

\* "for &innov in &all_innovations", visiting the innovations in the order
\* given; st = [excess, disjoint, weight_diff, matching]
RECURSIVE ClassifyFrom(_, _, _, _, _)
ClassifyFrom(order, innov_a, innov_b, bound, st) ==
    IF order = <<>> THEN st
    ELSE LET innov == Head(order)
             in_a  == innov \in DOMAIN innov_a
             in_b  == innov \in DOMAIN innov_b
         IN  ClassifyFrom(Tail(order), innov_a, innov_b, bound,
                 IF in_a /\ in_b
                 THEN [st EXCEPT !.matching = @ + 1,
                                 !.weight_diff =
                                     F32Add(@, WeightDiffTerm(innov_a[innov], innov_b[innov]))]
                 ELSE IF in_a \/ in_b
                 THEN IF innov > bound
                      THEN [st EXCEPT !.excess = @ + 1]
                      ELSE [st EXCEPT !.disjoint = @ + 1]
                 ELSE st)

\* the threshold of "normalize = n > 20.0"
NormalizeAbove == 20

\* a plausible slip: n >= 20.0
NormalizeFrom20(n) == n >= NormalizeAbove

Normalize(n) == n > NormalizeAbove

\* neat_distance(genome_a, genome_b, config), the HashSet all_innovations
\* being iterated in the given order.  The result carries the counters too.
NeatDistance(conns_a, conns_b, config, order) ==
    LET c1 == config.compatibility_excess_coeff
        c2 == config.compatibility_disjoint_coeff
        c3 == config.compatibility_weight_coeff
    IN
    IF conns_a = <<>> /\ conns_b = <<>>
    THEN [excess |-> 0, disjoint |-> 0, matching |-> 0, weight_diff |-> F32Zero,
          n |-> 0, d |-> F32Zero]
    ELSE
    LET innov_a == InnovMap(conns_a)
        innov_b == InnovMap(conns_b)
        st == ClassifyFrom(order, innov_a, innov_b,
                           ExcessBound(MaxInnovOf(conns_a), MaxInnovOf(conns_b)),
                           [excess |-> 0, disjoint |-> 0, weight_diff |-> F32Zero,
                            matching |-> 0])
        weight_avg == IF st.matching > 0 THEN F32DivInt(st.weight_diff, st.matching)
                      ELSE F32Zero
        n == Max(Max(Len(conns_a), Len(conns_b)), 1)
        d == IF Normalize(n)
             THEN F32Add(F32Add(F32DivInt(F32MulInt(c1, F32FromInt(st.excess)), n),
                                F32DivInt(F32MulInt(c2, F32FromInt(st.disjoint)), n)),
                         F32MulInt(c3, weight_avg))
             ELSE F32Add(F32Add(F32MulInt(c1, F32FromInt(st.excess)),
                                F32MulInt(c2, F32FromInt(st.disjoint))),
                         F32MulInt(c3, weight_avg))
    IN  [excess |-> st.excess, disjoint |-> st.disjoint, matching |-> st.matching,
         weight_diff |-> st.weight_diff, n |-> n, d |-> d]

\* all orders (sequences without repetition) of the elements of a finite set
RECURSIVE Perms(_)
Perms(S) ==
    IF S = {} THEN {<<>>}
    ELSE UNION {{<<x>> \o p : p \in Perms(S \ {x})} : x \in S}

\* a set of integers as an increasing sequence
RECURSIVE Ascending(_)
Ascending(S) ==
    IF S = {} THEN <<>>
    ELSE LET x == CHOOSE y \in S : \A z \in S : y <= z
         IN  <<x>> \o Ascending(S \ {x})

\* the innovations of the core genes of a genome, and of the pad genes of a
\* large genome
CoreInnovs == {0, 1, 2}

PadInnovs == {Cardinality(CoreInnovs) + k - 1 : k \in 1..PadLen}

\* The orders in which the HashSet of innovations may be iterated: its hasher
\* is seeded per set, so the order is unspecified.  The pad genes of the
\* large genomes all carry the same weight, so where they are visited cannot
\* change any counter or sum; they are visited last, in increasing order.
IterationOrders(innovs) ==
    {p \o Ascending(innovs \cap PadInnovs) : p \in Perms(innovs \ PadInnovs)}

InnovationsOf(conns) == {conns[k].innovation : k \in 1..Len(conns)}

\* coefficient settings (f32 values that are small integers):
\* <<excess, disjoint, weight>>
CoeffSets == {<<1, 2, 3>>, <<2, 0, 1>>}

Configs ==
    {[compatibility_excess_coeff |-> cs[1], compatibility_disjoint_coeff |-> cs[2],
      compatibility_weight_coeff |-> cs[3]] : cs \in CoeffSets}

\* distance(genome_a, genome_b, config) on two genome handles.  The first
\* call takes any two handles and any config, the second call the same two
\* handles the other way round and the same config.
DistanceCall ==
    /\ genomes # <<>>
    /\ Len(dist_calls) < 2
    /\ \E a, b \in 1..Len(genomes), config \in Configs :
         /\ dist_calls # <<>> => /\ a = dist_calls[1].b
                                 /\ b = dist_calls[1].a
                                 /\ config = dist_calls[1].config
         /\ LET conns_a == ConnsOf(gene_heap, genomes[a])
                conns_b == ConnsOf(gene_heap, genomes[b])
            IN  \E order \in IterationOrders(InnovationsOf(conns_a)
                                               \cup InnovationsOf(conns_b)) :
                  dist_calls' = Append(dist_calls,
                      [a |-> a, b |-> b, config |-> config,
                       result |-> NeatDistance(conns_a, conns_b, config, order)])
    /\ UNCHANGED <<gene_heap, genomes, cross_call, mut_call>>
    /\ UNCHANGED <<nsgaVars, speciesVars, netVars, opsVars>>

(***************************************************************************)
(* Specification of distance                                               *)
(***************************************************************************)
Absent == <<"absent">>

\* weights of the genes of the first and of the second genome
WeightVals == {WTiny, W2}
WeightValsB == {W0, W1}

\* the genes of a genome: one per core innovation that choice does not leave
\* absent, in increasing order, then pad pad-genes of weight 1.0
GenesOf(choice, pad) ==
    [k \in 1..Cardinality({i \in CoreInnovs : choice[i] # Absent}) |->
        LET i == Ascending({j \in CoreInnovs : choice[j] # Absent})[k]
        IN  [innovation |-> i, weight |-> choice[i], enabled |-> TRUE]]
    \o [k \in 1..pad |-> [innovation |-> Ascending(PadInnovs)[k], weight |-> W1,
                           enabled |-> TRUE]]

Handles(from, count) == [k \in 1..count |-> from + k - 1]

\* the two genomes handed to distance: two small genomes of any core genes,
\* or two genomes of which the first or both are large (the large ones with
\* weights 2.0 against 0.0 on the core genes)
DistanceInputs ==
    {<<ca, cb, <<0, 0>> >> : ca \in [CoreInnovs -> WeightVals \cup {Absent}],
                             cb \in [CoreInnovs -> WeightValsB \cup {Absent}]}
    \cup
    {<<ca, cb, pads>> : ca \in [CoreInnovs -> {W2, Absent}],
                        cb \in [CoreInnovs -> {W0, Absent}],
                        pads \in {<<PadLen, PadLen>>, <<PadLen, 0>>}}

InitDistance ==
    /\ NsgaIdle
    /\ rank_call = NoRankCall
    /\ dist_calls = <<>>
    /\ cross_call = [called |-> FALSE]
    /\ mut_call = [called |-> FALSE]
    /\ SpeciesIdle
    /\ NetIdle
    /\ OpsIdle
    /\ \E in \in DistanceInputs :
         LET genes_a == GenesOf(in[1], in[3][1])
             genes_b == GenesOf(in[2], in[3][2])
         IN  /\ gene_heap = genes_a \o genes_b
             /\ genomes = << NewGenome(Handles(1, Len(genes_a)), <<0, 1, 2>>, 0),
                             NewGenome(Handles(Len(genes_a) + 1, Len(genes_b)),
                                       <<0, 1, 2>>, 0) >>

NextDistance == DistanceCall

SpecDistance == InitDistance /\ [][NextDistance]_vars

(***************************************************************************)
(* neat_genome.rs: crossover                                               *)
(*                                                                         *)
(* VarDictionary::clone() copies the reference, not the Dictionary: a gene *)
(* of the child is the very gene Dictionary of a parent, so the child's    *)
(* "connections" Array (a new Array) holds handles of the parents' genes.  *)
(***************************************************************************)
\* mutant of FitterIsA: parent B wins a tie
FitterIsAStrict(fitness_a, fitness_b) == fitness_a > fitness_b

\* if fitness_a >= fitness_b { (parent_a, parent_b) } else { (parent_b, parent_a) }
FitterIsA(fitness_a, fitness_b) == fitness_a >= fitness_b

\* innov_less: HashMap<i32, VarDictionary> filled by insert, innovation -> the
\* handle of the less-fit parent's gene (a later gene replaces an earlier one)
RECURSIVE InnovLessFrom(_, _, _, _)
InnovLessFrom(heap, conns_less, k, m) ==
    IF k > Len(conns_less) THEN m
    ELSE LET innovation == heap[conns_less[k]].innovation IN
         InnovLessFrom(heap, conns_less, k + 1,
             [i \in (DOMAIN m) \cup {innovation} |->
                 IF i = innovation THEN conns_less[k] ELSE m[i]])

InnovLess(heap, conns_less) == InnovLessFrom(heap, conns_less, 1, <<>>)

\* the positions of the fitter parent's genes that have a gene of the same
\* innovation in the less-fit parent: gen_bool(0.5) is drawn for these only
MatchedPositions(heap, conns_fitter, innov_less) ==
    {i \in 1..Len(conns_fitter) : heap[conns_fitter[i]].innovation \in DOMAIN innov_less}

\* child_connections: per gene of the fitter parent, its handle or (when the
\* coin says so) the handle of the less-fit parent's gene of that innovation
ChildConnections(heap, conns_fitter, innov_less, coins) ==
    [i \in 1..Len(conns_fitter) |->
        LET conn_fit == conns_fitter[i]
            innovation == heap[conn_fit].innovation
        IN  IF innovation \in DOMAIN innov_less
            THEN IF coins[i] THEN conn_fit ELSE innov_less[innovation]
            ELSE conn_fit]

\* crossover(parent_a, parent_b): the child Dictionary is new, its nodes and
\* counts are the fitter parent's, its fitness is 0.0
Crossover ==
    /\ ~cross_call.called
    /\ Len(genomes) >= 2
    /\ \E a, b \in 1..Len(genomes) :
         LET a_fitter == FitterIsA(genomes[a].fitness, genomes[b].fitness)
             fitter == IF a_fitter THEN genomes[a] ELSE genomes[b]
             less_fit == IF a_fitter THEN genomes[b] ELSE genomes[a]
             conns_fitter == fitter.connections
             innov_less == InnovLess(gene_heap, less_fit.connections)
         IN  \E coins \in [MatchedPositions(gene_heap, conns_fitter, innov_less)
                              -> BOOLEAN] :
               LET child == [connections |-> ChildConnections(gene_heap, conns_fitter,
                                                              innov_less, coins),
                             nodes |-> fitter.nodes,
                             input_count |-> fitter.input_count,
                             output_count |-> fitter.output_count,
                             fitness |-> 0]
               IN  /\ genomes' = Append(genomes, child)
                   /\ cross_call' = [called |-> TRUE, a |-> a, b |-> b,
                                     child |-> Len(genomes) + 1,
                                     parent_a |-> genomes[a], parent_b |-> genomes[b],
                                     result |-> child, heap |-> gene_heap]
    /\ UNCHANGED <<gene_heap, dist_calls, mut_call>>
    /\ UNCHANGED <<nsgaVars, speciesVars, netVars, opsVars>>

(***************************************************************************)
(* Specification of crossover                                              *)
(***************************************************************************)
\* a parent's genes: per core innovation absent, enabled or disabled, all of
\* one weight
ParentChoices == [CoreInnovs -> {"absent", "enabled", "disabled"}]

ParentGenes(choice, weight) ==
    [k \in 1..Cardinality({i \in CoreInnovs : choice[i] # "absent"}) |->
        LET i == Ascending({j \in CoreInnovs : choice[j] # "absent"})[k]
        IN  [innovation |-> i, weight |-> weight, enabled |-> choice[i] = "enabled"]]

\* the fitness of the two parents
FitnessPairs == {<<0, 0>>, <<1, 0>>, <<0, 1>>}

\* two parents: the genes of the first weigh 1.0, those of the second 2.0, and
\* the second has one node more
InitCrossover ==
    /\ NsgaIdle
    /\ rank_call = NoRankCall
    /\ dist_calls = <<>>
    /\ cross_call = [called |-> FALSE]
    /\ mut_call = [called |-> FALSE]
    /\ SpeciesIdle
    /\ NetIdle
    /\ OpsIdle
    /\ \E ca, cb \in ParentChoices, f \in FitnessPairs :
         LET genes_a == ParentGenes(ca, W1)
             genes_b == ParentGenes(cb, W2)
         IN  /\ gene_heap = genes_a \o genes_b
             /\ genomes = << NewGenome(Handles(1, Len(genes_a)), <<0, 1, 2>>, f[1]),
                             NewGenome(Handles(Len(genes_a) + 1, Len(genes_b)),
                                       <<0, 1, 2, 3>>, f[2]) >>

NextCrossover == Crossover

SpecCrossover == InitCrossover /\ [][NextCrossover]_vars

(***************************************************************************)
(* neat_genome.rs: mutate                                                  *)
(*                                                                         *)
(* A rate of the config and a draw of rng.gen::<f32>() (uniform in [0, 1)) *)
(* are counted in units of 1/RateOne.  Positions in "connections" count    *)
(* from 1; 0 stands for "no connection picked".                            *)
(***************************************************************************)
Rates == 0..RateOne

\* the values rng.gen::<f32>() can return: 0 <= u < 1
Draws == 0..(RateOne - 1)

\* mutant of SkipsMutation: skip only when the draw exceeds the rate
SkipsMutationIfExceeds(u, mutation_rate) == u > mutation_rate

\* if rng.gen::<f32>() >= mutation_rate { return; }
SkipsMutation(u, mutation_rate) == u >= mutation_rate

\* the outcomes of rng.gen::<f32>() < rate
Gate(rate) == {u < rate : u \in Draws}

\* the values gen_range(-2.0..2.0) returns in the model, and the samples of
\* Normal::new(0.0, weight_mutation_strength) (a strength above 0)
ReplaceVals == {F32Neg(W2), W0, W1}
NoiseVals == {W1}

\* what is drawn for one connection: the new weight of a replacement, or the
\* noise of a perturbation
WeightDraws(weight_replace_rate) ==
    UNION {IF replace THEN {<<"replace", v>> : v \in ReplaceVals}
                      ELSE {<<"perturb", z>> : z \in NoiseVals}
           : replace \in Gate(weight_replace_rate)}

\* new_weight: the drawn value, or (weight + noise).clamp(-2.0, 2.0)
NewWeight(weight, draw) ==
    IF draw[1] = "replace" THEN draw[2]
    ELSE F32Clamp(F32Add(weight, draw[2]), F32Neg(W2), W2)

\* for i in 0..connections.len(): conn.set("weight", new_weight)
RECURSIVE MutateWeightsFrom(_, _, _, _)
MutateWeightsFrom(heap, connections, draws, i) ==
    IF i > Len(connections) THEN heap
    ELSE LET conn == connections[i] IN
         MutateWeightsFrom(
             [heap EXCEPT ![conn].weight = NewWeight(heap[conn].weight, draws[i])],
             connections, draws, i + 1)

\* disabled_indices / enabled_indices
DisabledIndices(heap, connections) ==
    {i \in 1..Len(connections) : ~heap[connections[i]].enabled}

EnabledIndices(heap, connections) ==
    {i \in 1..Len(connections) : heap[connections[i]].enabled}

\* the position the enable step picks: none when connections is empty, the
\* draw does not pass or nothing is disabled
EnablePicks(heap, connections, conn_enable_rate) ==
    IF connections = <<>> THEN {0}
    ELSE UNION {IF pass /\ DisabledIndices(heap, connections) # {}
                THEN DisabledIndices(heap, connections) ELSE {0}
                : pass \in Gate(conn_enable_rate)}

\* mutant of DisableAllowed: a single connection may be disabled as well
DisableAllowedAny(len) == len > 0

\* ... && connections.len() > 1
DisableAllowed(len) == len > 1

\* the position the disable step picks
DisablePicks(heap, connections, conn_disable_rate) ==
    IF connections = <<>> THEN {0}
    ELSE UNION {IF pass /\ DisableAllowed(Len(connections))
                   /\ EnabledIndices(heap, connections) # {}
                THEN EnabledIndices(heap, connections) ELSE {0}
                : pass \in Gate(conn_disable_rate)}

\* mutant of DeleteAllowed: the last connection may be deleted as well
DeleteAllowedAny(len) == len > 0

\* ... && connections.len() > 1
DeleteAllowed(len) == len > 1

\* the position the deletion removes
DeletePicks(connections, conn_delete_rate) ==
    UNION {IF pass /\ DeleteAllowed(Len(connections)) THEN 1..Len(connections) ELSE {0}
           : pass \in Gate(conn_delete_rate)}

\* conn.set("enabled", value) on the picked connection
SetEnabled(heap, connections, idx, value) ==
    IF idx = 0 THEN heap ELSE [heap EXCEPT ![connections[idx]].enabled = value]

\* connections.remove(idx)
RemoveAt(connections, idx) ==
    IF idx = 0 THEN connections
    ELSE [k \in 1..(Len(connections) - 1) |->
             IF k < idx THEN connections[k] ELSE connections[k + 1]]

\* what a call of mutate leaves behind
MutCall(g, config, skipped, heap, connections, enabled_idx, disabled_idx, deleted_idx) ==
    [called |-> TRUE, genome |-> g, config |-> config, skipped |-> skipped,
     before |-> [heap |-> gene_heap, genome |-> genomes[g]],
     after |-> [heap |-> heap,
                genome |-> [genomes[g] EXCEPT !.connections = connections]],
     enabled_idx |-> enabled_idx, disabled_idx |-> disabled_idx,
     deleted_idx |-> deleted_idx]

\* the configs handed to mutate: mutation_rate, the two weight rates and the
\* three connection rates each 0 or 1, or all rates equal and in between
\* (conn_add_rate and node_add_rate are read and not used)
MutationConfigs ==
    {[mutation_rate |-> m, weight_mutation_rate |-> w, weight_replace_rate |-> w,
      conn_enable_rate |-> s, conn_disable_rate |-> s, conn_delete_rate |-> s]
     : m \in {0, RateOne}, w \in {0, RateOne}, s \in {0, RateOne}}
    \cup
    {[mutation_rate |-> r, weight_mutation_rate |-> r, weight_replace_rate |-> r,
      conn_enable_rate |-> r, conn_disable_rate |-> r, conn_delete_rate |-> r]
     : r \in Rates}

\* mutate(genome, config): the genome's connections Array and its gene
\* Dictionaries are changed in place (a gene removed from the Array stays in
\* gene_heap, where nothing reads it)
MutateWith(configs) ==
    /\ \E g \in 1..Len(genomes), config \in configs :
         LET connections == genomes[g].connections IN
         \E skip \in {SkipsMutation(u, config.mutation_rate) : u \in Draws} :
           IF skip
           THEN /\ mut_call' = MutCall(g, config, TRUE, gene_heap, connections, 0, 0, 0)
                /\ UNCHANGED <<gene_heap, genomes>>
           ELSE \E mutate_weights \in Gate(config.weight_mutation_rate) :
                \E draws \in IF mutate_weights
                             THEN [1..Len(connections) ->
                                      WeightDraws(config.weight_replace_rate)]
                             ELSE {<<>>} :
                  LET heap1 == IF mutate_weights
                               THEN MutateWeightsFrom(gene_heap, connections, draws, 1)
                               ELSE gene_heap
                  IN
                  \E enabled_idx \in EnablePicks(heap1, connections,
                                                 config.conn_enable_rate) :
                    LET heap2 == SetEnabled(heap1, connections, enabled_idx, TRUE) IN
                    \E disabled_idx \in DisablePicks(heap2, connections,
                                                     config.conn_disable_rate) :
                      LET heap3 == SetEnabled(heap2, connections, disabled_idx, FALSE)
                      IN
                      \E deleted_idx \in DeletePicks(connections,
                                                     config.conn_delete_rate) :
                        LET remaining == RemoveAt(connections, deleted_idx) IN
                        /\ gene_heap' = heap3
                        /\ genomes' = [genomes EXCEPT ![g].connections = remaining]
                        /\ mut_call' = MutCall(g, config, FALSE, heap3, remaining,
                                               enabled_idx, disabled_idx, deleted_idx)
    /\ UNCHANGED <<dist_calls, cross_call>>
    /\ UNCHANGED <<nsgaVars, speciesVars, netVars, opsVars>>

\* one call of mutate
Mutate == ~mut_call.called /\ MutateWith(MutationConfigs)

\* the configs of a sequence of calls: every step may or may not happen,
\* and weights are perturbed, never replaced
SeqConfigs ==
    {[mutation_rate |-> r, weight_mutation_rate |-> r, weight_replace_rate |-> 0,
      conn_enable_rate |-> r, conn_disable_rate |-> r, conn_delete_rate |-> r]
     : r \in Rates \ {0}}

\* one call of mutate among many on the same genome
MutateSeq == MutateWith(SeqConfigs)

(***************************************************************************)
(* Specification of mutate                                                 *)
(***************************************************************************)
\* a gene of the genome handed to mutate: absent, or of weight 1.0 (enabled or
\* disabled) or 2.0
MutateChoices ==
    [CoreInnovs -> {Absent, <<W1, TRUE>>, <<W1, FALSE>>, <<W2, TRUE>>}]

MutateGenes(choice) ==
    [k \in 1..Cardinality({i \in CoreInnovs : choice[i] # Absent}) |->
        LET i == Ascending({j \in CoreInnovs : choice[j] # Absent})[k]
        IN  [innovation |-> i, weight |-> choice[i][1], enabled |-> choice[i][2]]]

InitMutate ==
    /\ NsgaIdle
    /\ rank_call = NoRankCall
    /\ dist_calls = <<>>
    /\ cross_call = [called |-> FALSE]
    /\ mut_call = [called |-> FALSE]
    /\ SpeciesIdle
    /\ NetIdle
    /\ OpsIdle
    /\ \E choice \in MutateChoices :
         LET genes == MutateGenes(choice)
         IN  /\ gene_heap = genes
             /\ genomes = << NewGenome(Handles(1, Len(genes)), <<0, 1, 2>>, 0) >>

NextMutate == Mutate

SpecMutate == InitMutate /\ [][NextMutate]_vars

\* a sequence of mutate calls on one genome, whose genes all weigh 1.0
InitMutateSeq ==
    /\ InitMutate
    /\ \A h \in 1..Len(gene_heap) : gene_heap[h].weight = W1

NextMutateSeq == MutateSeq

SpecMutateSeq == InitMutateSeq /\ [][NextMutateSeq]_vars

(***************************************************************************)
(* Specification of crossover followed by mutate: a child is bred from two *)
(* parents and then handed to mutate                                       *)
(***************************************************************************)
\* mutate(child, config) on the child crossover returned
MutateChild ==
    /\ cross_call.called
    /\ Mutate
    /\ mut_call'.genome = cross_call.child

\* the parents of the bred child: the first, no less fit, has every gene,
\* all enabled; the second has every gene or none, all enabled or all disabled
InitOffspring ==
    /\ InitCrossover
    /\ genomes[1].fitness >= genomes[2].fitness
    /\ Len(genomes[1].connections) = Cardinality(CoreInnovs)
    /\ Len(genomes[2].connections) \in {0, Cardinality(CoreInnovs)}
    /\ \A h \in Range(genomes[1].connections) : gene_heap[h].enabled
    /\ \A h, k \in Range(genomes[2].connections) :
          gene_heap[h].enabled = gene_heap[k].enabled

NextOffspring == Crossover \/ MutateChild

SpecOffspring == InitOffspring /\ [][NextOffspring]_vars

(***************************************************************************)
(* neat_species.rs: speciate                                               *)
(*                                                                         *)
(* The population is the Array of genome Dictionaries `genomes`; a         *)
(* population index i (counted from 0, as in the code) names genomes[i+1]. *)
(* A position in species_list counts from 1; 0 stands for None.            *)
(***************************************************************************)
\* the genomes of the populations handed to speciate, as the core genes they
\* hold: A = (2^-23, 2^-23, 2.0), B = (0, 0, 0), C = (1.0), D = (), E = (1.0, 1.0)
PaletteA == [i \in CoreInnovs |-> IF i = 2 THEN W2 ELSE WTiny]
PaletteB == [i \in CoreInnovs |-> W0]
PaletteC == [i \in CoreInnovs |-> IF i = 0 THEN W1 ELSE Absent]
PaletteD == [i \in CoreInnovs |-> Absent]
PaletteE == [i \in CoreInnovs |-> IF i = 2 THEN Absent ELSE W1]

\* f32 values used as thresholds and distances: 2.0000002 (the f32 after 2.0)
\* and 3.0
W2Next == <<P2[F32Bits - 1] + 1, -22>>
W3 == <<P2[F32Bits - 1] + P2[F32Bits - 2], -22>>

\* the coefficients of the config handed to speciate
SpeciesCoeffs ==
    [compatibility_excess_coeff |-> 1, compatibility_disjoint_coeff |-> 2,
     compatibility_weight_coeff |-> 3]

\* the values neat_distance(genome, repr_genome, config) can return: one per
\* order in which the HashSet of innovations is walked
DistanceOutcomes(conns_a, conns_b, config) ==
    {NeatDistance(conns_a, conns_b, config, order).d :
        order \in IterationOrders(InnovationsOf(conns_a) \cup InnovationsOf(conns_b))}

\* DistanceOutcomes of every two genomes of the palette, computed once
PaletteConns ==
    {GenesOf(choice, 0) : choice \in {PaletteA, PaletteB, PaletteC, PaletteD, PaletteE}}

PaletteDistances ==
    [pair \in PaletteConns \X PaletteConns |->
        DistanceOutcomes(pair[1], pair[2], SpeciesCoeffs)]

\* neat_distance(population.at(genome_idx), population.at(representative), config)
SpeciesDistances(genome_idx, representative) ==
    LET conns_a == ConnsOf(gene_heap, At(genomes, genome_idx))
        conns_b == ConnsOf(gene_heap, At(genomes, representative))
    IN  IF <<conns_a, conns_b>> \in DOMAIN PaletteDistances
        THEN PaletteDistances[<<conns_a, conns_b>>]
        ELSE DistanceOutcomes(conns_a, conns_b, SpeciesCoeffs)

\* SpeciesDistances of every two genomes of the population, looked up once
\* per call
PopulationDistances ==
    [genome_idx \in 0..(Len(genomes) - 1) |->
        [representative \in 0..(Len(genomes) - 1) |->
            SpeciesDistances(genome_idx, representative)]]

\* the values of repr_idx = rng.gen::<usize>() % members.len(), one per
\* existing species (0 for a species without members, which draws nothing)
RepresentativePicks(existing_species) ==
    {picks \in [1..Len(existing_species) -> 0..Len(genomes)] :
        \A i \in 1..Len(existing_species) :
            IF existing_species[i].members = <<>> THEN picks[i] = 0
            ELSE picks[i] < Len(existing_species[i].members)}

\* species_list after the loop over existing_species: a species without
\* members is skipped, the others start with a random old member as
\* representative and no members
RECURSIVE ExtractFrom(_, _, _, _)
ExtractFrom(existing_species, picks, i, species_list) ==
    IF i > Len(existing_species) THEN species_list
    ELSE LET species_dict == existing_species[i] IN
         IF species_dict.members = <<>>
         THEN ExtractFrom(existing_species, picks, i + 1, species_list)
         ELSE ExtractFrom(existing_species, picks, i + 1,
                  Append(species_list,
                      [id |-> species_dict.id,
                       representative |-> At(species_dict.members, picks[i]),
                       members |-> <<>>,
                       best_fitness |-> 0,
                       stagnant_generations |-> species_dict.stagnant_generations]))

\* mutant of IsCompatible: a distance equal to the threshold matches too
IsCompatibleOrEqual(distance, compatibility_threshold) ==
    ~F32Less(compatibility_threshold, distance)

\* if distance < compatibility_threshold
IsCompatible(distance, compatibility_threshold) ==
    F32Less(distance, compatibility_threshold)

\* the scan of species_list for one genome, from position k on: every way it
\* can end, as found_species and the distances measured on the way
\* (outcomes[genome_idx][representative] are the values neat_distance can return)
RECURSIVE ScanFrom(_, _, _, _, _, _)
ScanFrom(outcomes, genome_idx, species_list, compatibility_threshold, k, measured) ==
    IF k > Len(species_list) THEN {[found_species |-> 0, distances |-> measured]}
    ELSE UNION {
           IF IsCompatible(distance, compatibility_threshold)
           THEN {[found_species |-> k, distances |-> Append(measured, distance)]}
           ELSE ScanFrom(outcomes, genome_idx, species_list, compatibility_threshold,
                         k + 1, Append(measured, distance))
           : distance \in outcomes[genome_idx][species_list[k].representative]}

\* the assignment loop over the shuffled indices, from position k on: every
\* way it can end.  st holds species_list, genome_species and, per genome,
\* the distances it measured
RECURSIVE AssignFrom(_, _, _, _, _)
AssignFrom(outcomes, unassigned, compatibility_threshold, k, st) ==
    IF k > Len(unassigned) THEN {st}
    ELSE LET genome_idx == unassigned[k] IN
         UNION {
           AssignFrom(outcomes, unassigned, compatibility_threshold, k + 1,
               [species_list |->
                    IF scan.found_species = 0 THEN st.species_list
                    ELSE [st.species_list EXCEPT ![scan.found_species].members =
                              Append(@, genome_idx)],
                genome_species |->
                    [st.genome_species EXCEPT ![genome_idx + 1] = scan.found_species],
                distances |-> [st.distances EXCEPT ![genome_idx + 1] = scan.distances]])
           : scan \in ScanFrom(outcomes, genome_idx, st.species_list,
                               compatibility_threshold, 1, <<>>)}

\* mutant of NextNewId: the id is not advanced
NextNewIdSame(new_id) == new_id

\* new_id += 1
NextNewId(new_id) == new_id + 1

\* the loop that makes a new species of every genome left without one, in
\* index order: st holds species_list and new_id
RECURSIVE NewSpeciesFrom(_, _, _)
NewSpeciesFrom(genome_species, genome_idx, st) ==
    IF genome_idx >= Len(genome_species) THEN st
    ELSE NewSpeciesFrom(genome_species, genome_idx + 1,
             IF At(genome_species, genome_idx) = 0
             THEN [species_list |->
                       Append(st.species_list,
                           [id |-> st.new_id,
                            representative |-> genome_idx,
                            members |-> <<genome_idx>>,
                            best_fitness |-> 0,
                            stagnant_generations |-> 0]),
                   new_id |-> NextNewId(st.new_id)]
             ELSE st)

\* mutant of BestMemberFrom: the first member stays the best one
BestMemberFirst(members, k, best) == best

\* for &member_idx in &species.members[1..]: if f > best_fitness { ... }
RECURSIVE BestMemberFrom(_, _, _)
BestMemberFrom(members, k, best) ==
    IF k > Len(members) THEN best
    ELSE LET f == At(genomes, members[k]).fitness IN
         BestMemberFrom(members, k + 1,
             IF f > best.best_fitness
             THEN [best_idx |-> members[k], best_fitness |-> f]
             ELSE best)

\* the representative and best_fitness of a species with members become those
\* of its best member
UpdateRepresentative(species) ==
    IF species.members = <<>> THEN species
    ELSE LET best == BestMemberFrom(species.members, 2,
                         [best_idx |-> species.members[1],
                          best_fitness |-> At(genomes, species.members[1]).fitness])
         IN  [species EXCEPT !.representative = best.best_idx,
                             !.best_fitness = best.best_fitness]

\* mutant of RetainNonEmpty: every species is kept
RetainAll(species_list) == species_list

\* species_list.retain(|s| !s.members.is_empty())
RetainNonEmpty(species_list) == SelectSeq(species_list, LAMBDA s : s.members # <<>>)

\* the result Dictionary: "species" and "next_id"
SpeciateResult(species_list, new_id) ==
    [species |-> RetainNonEmpty([k \in 1..Len(species_list) |->
                                    UpdateRepresentative(species_list[k])]),
     next_id |-> new_id]

\* the arguments of the next call: those of the first call again, or the
\* species and next_id the first call returned
NextSpeciateArgs ==
    IF spec_calls = <<>> THEN {spec_args}
    ELSE {spec_args,
          [spec_args EXCEPT !.existing_species = spec_calls[1].result.species,
                            !.next_species_id = spec_calls[1].result.next_id]}

\* speciate(population, existing_species, config, next_species_id)
Speciate ==
    /\ spec_args.existing_species # <<>> \/ genomes # <<>>
    /\ Len(spec_calls) < 2
    /\ \E args \in NextSpeciateArgs :
         LET pop_size == Len(genomes)
             outcomes == PopulationDistances
             call == [existing_species |-> args.existing_species,
                      next_species_id |-> args.next_species_id,
                      compatibility_threshold |-> args.compatibility_threshold]
         IN
         IF pop_size = 0
         THEN spec_calls' = Append(spec_calls,
                  [call |-> call, candidates |-> <<>>, genome_species |-> <<>>,
                   distances |-> <<>>,
                   result |-> [species |-> <<>>, next_id |-> args.next_species_id]])
         ELSE \E picks \in RepresentativePicks(args.existing_species) :
              \E unassigned \in Perms(0..(pop_size - 1)) :
                LET candidates == ExtractFrom(args.existing_species, picks, 1, <<>>)
                IN
                \E assigned \in AssignFrom(outcomes, unassigned,
                                    args.compatibility_threshold, 1,
                                    [species_list |-> candidates,
                                     genome_species |-> [g \in 1..pop_size |-> 0],
                                     distances |-> [g \in 1..pop_size |-> <<>>]]) :
                  LET created == NewSpeciesFrom(assigned.genome_species, 0,
                                     [species_list |-> assigned.species_list,
                                      new_id |-> args.next_species_id])
                  IN  spec_calls' = Append(spec_calls,
                          [call |-> call, candidates |-> candidates,
                           genome_species |-> assigned.genome_species,
                           distances |-> assigned.distances,
                           result |-> SpeciateResult(created.species_list,
                                                     created.new_id)])
    /\ UNCHANGED <<spec_args, genomeVars, nsgaVars, netVars, opsVars>>

(***************************************************************************)
(* Specification of speciate                                               *)
(***************************************************************************)
\* the populations handed to speciate, each genome as <<genes, fitness>>, with
\* the threshold they are clustered by: one or two genomes of A and B with
\* the threshold 2.0000002; none, one or two genomes of C, D and E, or three
\* of them (C or D, then D or E, then E), or C, D, E and B, with the
\* threshold 3.0
SmallPopulations(individuals) == [1..1 -> individuals] \cup [1..2 -> individuals]

SpeciesInputs ==
    {<<pop, W2Next>> : pop \in SmallPopulations({<<PaletteA, 0>>, <<PaletteB, 1>>})}
    \cup
    {<<pop, W3>> :
        pop \in {<<>>}
                \cup SmallPopulations({<<PaletteC, 0>>, <<PaletteD, 1>>, <<PaletteE, 0>>})
                \cup {<<first, second, <<PaletteE, 0>> >> :
                         first \in {<<PaletteC, 0>>, <<PaletteD, 1>>},
                         second \in {<<PaletteD, 1>>, <<PaletteE, 0>>}}
                \cup {<< <<PaletteC, 0>>, <<PaletteD, 1>>, <<PaletteE, 0>>,
                          <<PaletteB, 1>> >>}}

\* the genes of the whole population, genome after genome
RECURSIVE PopulationGenes(_, _)
PopulationGenes(pop, k) ==
    IF k > Len(pop) THEN <<>>
    ELSE GenesOf(pop[k][1], 0) \o PopulationGenes(pop, k + 1)

\* the genome Dictionaries of the population over those genes
PopulationGenomes(pop) ==
    [k \in 1..Len(pop) |->
        NewGenome(Handles(Len(PopulationGenes(SubSeq(pop, 1, k - 1), 1)) + 1,
                          Len(GenesOf(pop[k][1], 0))),
                  <<0, 1, 2>>, pop[k][2])]

\* the existing species handed to the first call: none, or two species of
\* ids 3 and 1 among which the population indices are dealt (an index may
\* belong to neither, a species may have no member; of a population of more
\* than three genomes only the first one is dealt)
ExistingSpecies(pop_size) ==
    {<<>>} \cup
    {<< [id |-> 3, stagnant_generations |-> 2,
         members |-> Ascending({i \in 0..(pop_size - 1) : deal[i] = 1})],
        [id |-> 1, stagnant_generations |-> 0,
         members |-> Ascending({i \in 0..(pop_size - 1) : deal[i] = 2})] >>
     : deal \in {d \in [0..(pop_size - 1) -> 0..2] :
                    \A i \in 3..(pop_size - 1) : d[i] = 0 /\ d[i - 1] = 0 /\ d[i - 2] = 0}}

\* the next_species_id handed to the first call
FirstSpeciesId == 4

InitSpeciate ==
    /\ NsgaIdle
    /\ rank_call = NoRankCall
    /\ dist_calls = <<>>
    /\ cross_call = [called |-> FALSE]
    /\ mut_call = [called |-> FALSE]
    /\ spec_calls = <<>>
    /\ NetIdle
    /\ OpsIdle
    /\ \E in \in SpeciesInputs :
         /\ gene_heap = PopulationGenes(in[1], 1)
         /\ genomes = PopulationGenomes(in[1])
         /\ \E existing \in ExistingSpecies(Len(in[1])) :
              spec_args = [existing_species |-> existing,
                           compatibility_threshold |-> in[2],
                           next_species_id |-> FirstSpeciesId]

NextSpeciate == Speciate

SpecSpeciate == InitSpeciate /\ [][NextSpeciate]_vars

(***************************************************************************)
(* neural_network.rs: the fixed-topology network.  An f32 the network      *)
(* holds or computes is a term: a constant, or the product, sum or tanh    *)
(* of terms in the order the code evaluates them.  Two equal terms are the *)
(* same f32; the arithmetic itself is left uninterpreted.                  *)
(***************************************************************************)
Const(k) == [op |-> "const", val |-> k, args |-> <<>>]

Zero == Const(0)

Mul(a, b) == [op |-> "mul", val |-> 0, args |-> <<a, b>>]

Add(a, b) == [op |-> "add", val |-> 0, args |-> <<a, b>>]

Tanh(a) == [op |-> "tanh", val |-> 0, args |-> <<a>>]

Zeros(n) == [k \in 1..n |-> Zero]

\* the calls made on one network
MaxNetCalls == 3

\* sum += weights[offset + i] * xs[i] for i in 0..len(xs)
RECURSIVE DotFrom(_, _, _, _, _)
DotFrom(sum, weights, offset, xs, i) ==
    IF i >= Len(xs) THEN sum
    ELSE DotFrom(Add(sum, Mul(At(weights, offset + i), At(xs, i))),
                 weights, offset, xs, i + 1)

\* the values a random generator hands out: all different, or all the same
DrawModes == {"distinct", "same"}

DrawWeights(mode, base, n) ==
    [k \in 1..n |-> Const(IF mode = "distinct" THEN base + k ELSE 1)]

\* create(input_size, hidden_size, output_size), randomize_weights included
Create(input_size, hidden_size, output_size, mode) ==
    [input_size |-> input_size, hidden_size |-> hidden_size,
     output_size |-> output_size, use_memory |-> FALSE,
     weights_ih |-> DrawWeights(mode, 10, input_size * hidden_size),
     bias_h |-> DrawWeights(mode, 20, hidden_size),
     weights_ho |-> DrawWeights(mode, 30, hidden_size * output_size),
     bias_o |-> DrawWeights(mode, 40, output_size),
     weights_hh |-> <<>>, prev_hidden |-> <<>>,
     hidden |-> Zeros(hidden_size), output |-> Zeros(output_size)]

EnableMemoryOf(n, mode) ==
    IF n.use_memory THEN n
    ELSE [n EXCEPT !.use_memory = TRUE,
                   !.prev_hidden = Zeros(n.hidden_size),
                   !.weights_hh = DrawWeights(mode, 50, n.hidden_size * n.hidden_size)]

ResetMemoryKeeps(n) == n

ResetMemoryOf(n) ==
    IF n.use_memory THEN [n EXCEPT !.prev_hidden = Zeros(Len(n.prev_hidden))] ELSE n

ForwardHidden(n, inp, h) ==
    LET sum == DotFrom(At(n.bias_h, h), n.weights_ih, h * n.input_size, inp, 0)
    IN Tanh(IF n.use_memory
            THEN DotFrom(sum, n.weights_hh, h * n.hidden_size, n.prev_hidden, 0)
            ELSE sum)

ForwardOf(n, inp) ==
    LET hidden == [k \in 1..n.hidden_size |-> ForwardHidden(n, inp, k - 1)]
        output == [k \in 1..n.output_size |->
                      Tanh(DotFrom(At(n.bias_o, k - 1), n.weights_ho,
                                   (k - 1) * n.hidden_size, hidden, 0))]
    IN [n EXCEPT !.hidden = hidden,
                 !.prev_hidden = IF n.use_memory THEN hidden ELSE @,
                 !.output = output]

GetWeightsBiasFirst(n) ==
    n.bias_h \o n.weights_ih \o n.weights_ho \o n.bias_o
        \o (IF n.use_memory THEN n.weights_hh ELSE <<>>)

GetWeights(n) ==
    n.weights_ih \o n.bias_h \o n.weights_ho \o n.bias_o
        \o (IF n.use_memory THEN n.weights_hh ELSE <<>>)

GetWeightCount(n) ==
    Len(n.weights_ih) + Len(n.bias_h) + Len(n.weights_ho) + Len(n.bias_o)
        + (IF n.use_memory THEN Len(n.weights_hh) ELSE 0)

\* v = w[idx]; idx += 1 over one weight vector
TakeWeights(w, idx, len) == [k \in 1..len |-> At(w, idx + k - 1)]

\* set_weights indexes w without a check: a w too short for what is copied
\* panics, and the context weights are copied only when w goes on past the
\* first four vectors
SetWeightsPanics(n, w) ==
    LET idx == Len(n.weights_ih) + Len(n.bias_h) + Len(n.weights_ho) + Len(n.bias_o)
    IN \/ Len(w) < idx
       \/ n.use_memory /\ idx < Len(w) /\ Len(w) < idx + Len(n.weights_hh)

SetWeightsOf(n, w) ==
    LET ih == Len(n.weights_ih)
        bh == ih + Len(n.bias_h)
        ho == bh + Len(n.weights_ho)
        idx == ho + Len(n.bias_o)
    IN [n EXCEPT !.weights_ih = TakeWeights(w, 0, Len(n.weights_ih)),
                 !.bias_h = TakeWeights(w, ih, Len(n.bias_h)),
                 !.weights_ho = TakeWeights(w, bh, Len(n.weights_ho)),
                 !.bias_o = TakeWeights(w, ho, Len(n.bias_o)),
                 !.weights_hh = IF n.use_memory /\ idx < Len(w)
                                THEN TakeWeights(w, idx, Len(n.weights_hh))
                                ELSE @]

CloneNetwork(n) ==
    [n EXCEPT !.prev_hidden = Zeros(IF n.use_memory THEN n.hidden_size ELSE 0),
              !.hidden = Zeros(n.hidden_size),
              !.output = Zeros(n.output_size)]

\* a crashed process makes no further call
NnAlive ==
    /\ Len(nn_calls) < MaxNetCalls
    /\ \A k \in 1..Len(nn_calls) : nn_calls[k].outcome # "crashed"

\* one call on the network that returned: what was handed in, what came
\* back, and the network before and after
NnCall(op, arg, result, after) ==
    /\ NnAlive
    /\ nn' = after
    /\ nn_calls' = Append(nn_calls, [op |-> op, arg |-> arg, result |-> result,
                                     before |-> nn, after |-> after,
                                     outcome |-> "returned"])
    /\ UNCHANGED <<nsgaVars, genomeVars, speciesVars, neat, neat_calls, opsVars>>

\* one call that did not return: it "panicked" before it changed anything,
\* or the process "crashed"
NnFail(op, arg, outcome) ==
    /\ NnAlive
    /\ nn_calls' = Append(nn_calls, [op |-> op, arg |-> arg, result |-> <<>>,
                                     before |-> nn, after |-> nn,
                                     outcome |-> outcome])
    /\ UNCHANGED <<nn, nsgaVars, genomeVars, speciesVars, neat, neat_calls, opsVars>>

EnableMemory ==
    /\ ~nn.use_memory
    /\ \E mode \in DrawModes : NnCall("enable_memory", <<>>, <<>>, EnableMemoryOf(nn, mode))

ResetMemory == NnCall("reset_memory", <<>>, <<>>, ResetMemoryOf(nn))

\* the input values handed to forward
InputVals == {Const(1), Const(2)}

\* the input vectors handed to forward: input_size values, one value too
\* few, one too many
ForwardInputs(n) ==
    {[i \in 1..n.input_size |-> Const(1)],
     [i \in 1..n.input_size |-> Const(3 - i)],
     [i \in 1..(n.input_size - 1) |-> Const(1)],
     [i \in 1..(n.input_size + 1) |-> Const(2)]}

\* what a read past the end of the input slice may find
StrayVals == {Zero, Const(9)}

\* inp.get_unchecked(i) for i in 0..input_size: the elements of inp, and
\* past its end whatever lies there
UncheckedReads(n, inp) ==
    {read \in [1..n.input_size -> InputVals \cup StrayVals] :
        \A i \in 1..n.input_size :
            IF i <= Len(inp) THEN read[i] = inp[i] ELSE read[i] \in StrayVals}

\* forward checks the length of inputs with debug_assert_eq only: a build
\* with debug assertions panics on a mismatch, a build without them reads
\* input_size elements unchecked, which past the end of a short slice is
\* undefined behaviour: a stray value or a crash
Forward ==
    \E inp \in ForwardInputs(nn) :
        \/ /\ Len(inp) = nn.input_size
           /\ NnCall("forward", inp, ForwardOf(nn, inp).output, ForwardOf(nn, inp))
        \/ /\ Len(inp) # nn.input_size
           /\ NnFail("forward", inp, "panicked")
        \/ /\ Len(inp) # nn.input_size
           /\ \E read \in UncheckedReads(nn, inp) :
                 NnCall("forward", inp, ForwardOf(nn, read).output, ForwardOf(nn, read))
        \/ /\ Len(inp) < nn.input_size
           /\ NnFail("forward", inp, "crashed")

GetWeightsCall == NnCall("get_weights", <<>>, GetWeights(nn), nn)

\* the arrays handed to set_weights: what get_weights returned, the same
\* without the context weights, or new values throughout
WeightArrays(n) ==
    {GetWeights(n),
     SubSeq(GetWeights(n), 1, GetWeightCount([n EXCEPT !.use_memory = FALSE])),
     [k \in 1..GetWeightCount(n) |-> Const(60 + k)]}

SetWeights ==
    \E w \in WeightArrays(nn) :
        /\ ~SetWeightsPanics(nn, w)
        /\ NnCall("set_weights", w, <<>>, SetWeightsOf(nn, w))

\* the architectures of the model: input, hidden and output sizes
Architectures == {<<2, 2, 1>>, <<1, 2, 2>>}

InitNetwork ==
    /\ NsgaIdle
    /\ rank_call = NoRankCall
    /\ GenomeIdle
    /\ OpsIdle
    /\ neat = [node_order |-> <<>>]
    /\ neat_calls = <<>>
    /\ nn_calls = <<>>
    /\ \E a \in Architectures, mode \in DrawModes :
         nn \in {Create(a[1], a[2], a[3], mode),
                 EnableMemoryOf(Create(a[1], a[2], a[3], mode), mode)}

NextNetwork == EnableMemory \/ ResetMemory \/ Forward \/ GetWeightsCall \/ SetWeights

SpecNetwork == InitNetwork /\ [][NextNetwork]_vars

(***************************************************************************)
(* neat_network.rs: the variable-topology network.  Nodes are known by     *)
(* their place 0..num_nodes-1 in the arrays handed to create; f32 values   *)
(* are terms as above.                                                     *)
(***************************************************************************)
\* the calls made on one network after create
MaxNeatCalls == 3

\* lookup: the place of node_id in node_ids, -1 for None; node ids are unique
Lookup(node_ids, node_id) ==
    IF \E i \in 1..Len(node_ids) : node_ids[i] = node_id
    THEN (CHOOSE i \in 1..Len(node_ids) : node_ids[i] = node_id) - 1
    ELSE -1

\* the places 0..num_nodes-1 whose node type is t, in listing order
RECURSIVE OfTypeFrom(_, _, _)
OfTypeFrom(n_types, t, i) ==
    IF i >= Len(n_types) THEN <<>>
    ELSE (IF At(n_types, i) = t THEN <<i>> ELSE <<>>) \o OfTypeFrom(n_types, t, i + 1)

IsEnabledAlways(byte) == TRUE

IsEnabled(byte) == byte # 0

\* the enabled connections whose endpoints both exist, in listing order
RECURSIVE ConnectionsFrom(_, _)
ConnectionsFrom(args, c) ==
    IF c >= Len(args.conn_in_ids) THEN <<>>
    ELSE LET from_idx == Lookup(args.node_ids, At(args.conn_in_ids, c))
             to_idx == Lookup(args.node_ids, At(args.conn_out_ids, c))
         IN (IF IsEnabled(At(args.conn_enabled, c)) /\ from_idx # -1 /\ to_idx # -1
             THEN << <<from_idx, to_idx, At(args.conn_weights, c)>> >>
             ELSE <<>>) \o ConnectionsFrom(args, c + 1)

\* incoming[node]: (from_idx, weight) of the connections into node
Incoming(connections, num_nodes) ==
    [node \in 1..num_nodes |->
        LET into == SelectSeq(connections, LAMBDA conn : conn[2] = node - 1)
        IN [k \in 1..Len(into) |-> <<into[k][1], into[k][3]>>]]

\* adjacency[node]: the targets of the connections out of node
Adjacency(connections, num_nodes) ==
    [node \in 1..num_nodes |->
        LET out == SelectSeq(connections, LAMBDA conn : conn[1] = node - 1)
        IN [k \in 1..Len(out) |-> out[k][2]]]

\* in_degree[downstream] -= 1 and the push of those that reach 0
RECURSIVE RelaxFrom(_, _, _)
RelaxFrom(downstream, k, st) ==
    IF k > Len(downstream) THEN st
    ELSE LET d == At(st.in_degree, downstream[k]) - 1
         IN RelaxFrom(downstream, k + 1,
                [in_degree |-> [st.in_degree EXCEPT ![downstream[k] + 1] = d],
                 queue |-> IF d = 0 THEN Append(st.queue, downstream[k]) ELSE st.queue])

\* Kahn's algorithm: the while loop over the queue
RECURSIVE KahnFrom(_, _, _, _)
KahnFrom(adjacency, head, st, node_order) ==
    IF head >= Len(st.queue) THEN node_order
    ELSE LET node == At(st.queue, head)
         IN KahnFrom(adjacency, head + 1, RelaxFrom(At(adjacency, node), 1, st),
                     Append(node_order, node))

NodeOrder(n_types, connections) ==
    LET num_nodes == Len(n_types)
        in_degree == [node \in 1..num_nodes |->
                         Len(SelectSeq(connections, LAMBDA conn : conn[2] = node - 1))]
        queue == SelectSeq([i \in 1..num_nodes |-> i - 1], LAMBDA i : At(in_degree, i) = 0)
        sorted == KahnFrom(Adjacency(connections, num_nodes), 0,
                           [in_degree |-> in_degree, queue |-> queue], <<>>)
    IN IF Len(sorted) < num_nodes
       THEN OfTypeFrom(n_types, 0, 0) \o OfTypeFrom(n_types, 1, 0) \o OfTypeFrom(n_types, 2, 0)
       ELSE sorted

\* create
Compile(args) ==
    LET num_nodes == Len(args.node_ids)
        connections == ConnectionsFrom(args, 0)
        input_indices == OfTypeFrom(args.node_types, 0, 0)
        output_indices == OfTypeFrom(args.node_types, 2, 0)
    IN [node_order |-> NodeOrder(args.node_types, connections),
        node_biases |-> args.node_biases,
        input_indices |-> input_indices,
        output_indices |-> output_indices,
        connections |-> connections,
        incoming |-> Incoming(connections, num_nodes),
        activations |-> Zeros(num_nodes),
        is_input |-> [node \in 1..num_nodes |-> node - 1 \in Range(input_indices)],
        cached_outputs |-> Zeros(Len(output_indices))]

InputOrFirst(inp, i) == IF i < Len(inp) THEN At(inp, i) ELSE At(inp \o <<Zero>>, 0)

InputOrZero(inp, i) == IF i < Len(inp) THEN At(inp, i) ELSE Zero

\* forward: the input activations
RECURSIVE SetInputsFrom(_, _, _, _)
SetInputsFrom(input_indices, inp, i, activations) ==
    IF i >= Len(input_indices) THEN activations
    ELSE SetInputsFrom(input_indices, inp, i + 1,
            [activations EXCEPT ![At(input_indices, i) + 1] = InputOrZero(inp, i)])

\* sum += activations[from_idx] * weight over incoming[node_idx]
RECURSIVE IncomingSumFrom(_, _, _, _)
IncomingSumFrom(sum, incoming, k, activations) ==
    IF k > Len(incoming) THEN sum
    ELSE IncomingSumFrom(Add(sum, Mul(At(activations, incoming[k][1]), incoming[k][2])),
                         incoming, k + 1, activations)

\* forward: the nodes of node_order, one after the other, inputs skipped
RECURSIVE ProcessFrom(_, _, _)
ProcessFrom(n, k, activations) ==
    IF k > Len(n.node_order) THEN activations
    ELSE LET node_idx == n.node_order[k]
         IN ProcessFrom(n, k + 1,
                IF At(n.is_input, node_idx) THEN activations
                ELSE [activations EXCEPT ![node_idx + 1] =
                         Tanh(IncomingSumFrom(At(n.node_biases, node_idx),
                                              At(n.incoming, node_idx), 1, activations))])

NeatForwardOf(n, inp) ==
    LET activations == ProcessFrom(n, 1, SetInputsFrom(n.input_indices, inp, 0, n.activations))
    IN [n EXCEPT !.activations = activations,
                 !.cached_outputs = [i \in 1..Len(n.output_indices) |->
                                        At(activations, n.output_indices[i])]]

NeatResetKeeps(n) == n

NeatResetOf(n) == [n EXCEPT !.activations = Zeros(Len(n.activations))]

\* no network is built yet
NoNeat == [node_order |-> <<>>]

NeatCall(op, arg, result, after) ==
    /\ neat' = after
    /\ neat_calls' = Append(neat_calls, [op |-> op, arg |-> arg, result |-> result,
                                         before |-> neat, after |-> after])
    /\ UNCHANGED <<nsgaVars, genomeVars, speciesVars, nn, nn_calls, opsVars>>

\* the node lists of the model: ids, types and biases, hidden and output
\* nodes listed before the nodes that feed them
NodeLists ==
    {[node_ids |-> <<0, 1, 2>>, node_types |-> <<0, 2, 1>>,
      node_biases |-> <<Const(80), Const(81), Const(82)>>],
     [node_ids |-> <<5, 3, 4, 1>>, node_types |-> <<2, 0, 1, 0>>,
      node_biases |-> <<Const(80), Const(81), Const(82), Const(83)>>]}

\* the connections drawn on: (in id, out id); 7 is the id of no node
Edges(node_ids) ==
    IF Len(node_ids) = 3
    THEN {<<0, 2>>, <<2, 1>>, <<1, 2>>, <<2, 2>>, <<0, 1>>, <<7, 1>>}
    ELSE {<<3, 4>>, <<4, 5>>, <<5, 4>>}

\* the connection lists: up to two connections on three nodes, up to three
\* on four, enabled or not, the k-th with weight Const(70 + k)
ConnLists(node_ids) ==
    {conns \in SeqsUpTo(Edges(node_ids) \X {0, 1}, IF Len(node_ids) = 3 THEN 2 ELSE 3) :
        Len(node_ids) = 3 \/ Len(conns) = 3}

CreateArgs ==
    UNION {{[node_ids |-> nodes.node_ids, node_types |-> nodes.node_types,
             node_biases |-> nodes.node_biases,
             conn_in_ids |-> [k \in 1..Len(conns) |-> conns[k][1][1]],
             conn_out_ids |-> [k \in 1..Len(conns) |-> conns[k][1][2]],
             conn_weights |-> [k \in 1..Len(conns) |-> Const(70 + k)],
             conn_enabled |-> [k \in 1..Len(conns) |-> conns[k][2]]]
            : conns \in ConnLists(nodes.node_ids)} : nodes \in NodeLists}

NeatCreate ==
    /\ neat_calls = <<>>
    /\ \E args \in CreateArgs : NeatCall("create", args, <<>>, Compile(args))

\* the inputs handed to forward: none, too few, as many as input nodes, too many
NeatInputs == {<<>>, <<Const(1)>>, <<Const(2), Const(1)>>, <<Const(1), Const(2), Const(3)>>}

NeatForward ==
    /\ neat_calls # <<>>
    /\ Len(neat_calls) <= MaxNeatCalls
    /\ \E inp \in NeatInputs :
         NeatCall("forward", inp, NeatForwardOf(neat, inp).cached_outputs,
                  NeatForwardOf(neat, inp))

NeatReset ==
    /\ neat_calls # <<>>
    /\ Len(neat_calls) <= MaxNeatCalls
    /\ NeatCall("reset", <<>>, <<>>, NeatResetOf(neat))

InitNeat ==
    /\ NsgaIdle
    /\ rank_call = NoRankCall
    /\ GenomeIdle
    /\ OpsIdle
    /\ nn = [input_size |-> 0]
    /\ nn_calls = <<>>
    /\ neat = NoNeat
    /\ neat_calls = <<>>

NextNeat == NeatCreate \/ NeatForward \/ NeatReset

SpecNeat == InitNeat /\ [][NextNeat]_vars

(***************************************************************************)
(* nsga2.rs: crowding_distance                                             *)
(*                                                                         *)
(* A distance is f64::INFINITY or a finite sum; the sum is kept as the     *)
(* list of the quotients added, in the order the code adds them, each      *)
(* quotient <<difference, range>> being one f32 division.                  *)
(***************************************************************************)
Infinity == [inf |-> TRUE, sum |-> <<>>]

ZeroDistance == [inf |-> FALSE, sum |-> <<>>]

\* distances[curr] += (difference / range) as f64; INFINITY absorbs a finite
\* quotient
AddQuotient(d, difference, range) ==
    IF d.inf THEN d ELSE [d EXCEPT !.sum = Append(@, <<difference, range>>)]

\* a plausible slip: the entries keyed by place in the front, not by index
InfinityByPlace(front) == [i \in 0..(Len(front) - 1) |-> Infinity]

\* n <= 2: result.set(idx, f64::INFINITY) for every idx of the front
InfinityForAll(front) == [idx \in Range(front) |-> Infinity]

\* objectives.at(idx as usize) panics for an index outside the Array
ExtractPanics(objectives_in, front) ==
    \E k \in 1..Len(front) : front[k] \notin 0..(Len(objectives_in) - 1)

\* objs: the [x, y, z] of each front member, by place 0..n-1
ExtractObjs(objectives_in, front) ==
    [i \in 0..(Len(front) - 1) |-> At(objectives_in, front[i + 1])]

\* the place a stable ascending sort by objective m gives to place i
SortedPlace(objs, m, i) ==
    Cardinality({j \in DOMAIN objs :
                    \/ objs[j][m] < objs[i][m]
                    \/ (objs[j][m] = objs[i][m] /\ j < i)})

\* sorted_indices after sort_by on objective m (sort_by is stable)
SortedIndices(objs, m) ==
    [k \in DOMAIN objs |-> CHOOSE i \in DOMAIN objs : SortedPlace(objs, m, i) = k]

\* one pass of the loop over the objectives: the boundary places are set to
\* INFINITY, then the range is tested, then the interior places accumulate
CrowdingPass(objs, m, distances) ==
    LET n == Cardinality(DOMAIN objs)
        sorted_indices == SortedIndices(objs, m)
        marked == [i \in DOMAIN distances |->
                      IF i = sorted_indices[0] \/ i = sorted_indices[n - 1]
                      THEN Infinity ELSE distances[i]]
        range == objs[sorted_indices[n - 1]][m] - objs[sorted_indices[0]][m]
        KOf(curr) == CHOOSE k \in DOMAIN objs : sorted_indices[k] = curr
    IN  IF range > 0
        THEN [curr \in DOMAIN distances |->
                 IF KOf(curr) \in 1..(n - 2)
                 THEN AddQuotient(marked[curr],
                                  objs[sorted_indices[KOf(curr) + 1]][m]
                                    - objs[sorted_indices[KOf(curr) - 1]][m],
                                  range)
                 ELSE marked[curr]]
        ELSE marked

\* for m in 0..3, from objective m on (objective m is component m + 1)
RECURSIVE CrowdingFrom(_, _, _)
CrowdingFrom(objs, m, distances) ==
    IF m >= 3 THEN distances
    ELSE CrowdingFrom(objs, m + 1, CrowdingPass(objs, m + 1, distances))

\* result.set(idx, distances[i]) for every place i in order: the last place
\* of an index listed twice decides its entry
CollectResult(front, distances) ==
    [idx \in Range(front) |->
        distances[(CHOOSE k \in 1..Len(front) :
                     /\ front[k] = idx
                     /\ \A l \in (k + 1)..Len(front) : front[l] # idx) - 1]]

CrowdingDistanceOf(objectives_in, front) ==
    IF Len(front) <= 2 THEN InfinityForAll(front)
    ELSE CollectResult(front,
             CrowdingFrom(ExtractObjs(objectives_in, front), 0,
                          [i \in 0..(Len(front) - 1) |-> ZeroDistance]))

\* the call of crowding_distance(objectives, front) held by op_call
CrowdingDistance ==
    /\ op_call.op = "crowding_distance"
    /\ ~op_call.returned
    /\ IF Len(op_call.front) > 2 /\ ExtractPanics(op_call.objectives, op_call.front)
       THEN op_call' = [op_call EXCEPT !.returned = TRUE, !.outcome = "panicked"]
       ELSE op_call' = [op_call EXCEPT
                           !.returned = TRUE,
                           !.outcome = "returned",
                           !.result = CrowdingDistanceOf(op_call.objectives,
                                                         op_call.front)]
    /\ UNCHANGED <<nsgaVars, genomeVars, speciesVars, netVars>>

(***************************************************************************)
(* Specification of crowding_distance                                      *)
(***************************************************************************)
\* objective vectors none of which dominates another within a z level
CrowdVectors == {<<x, 2 - x, z>> : x \in 0..2, z \in 0..1}

\* fronts over a population of n: every front of up to two members, every
\* ordering of the whole population, and fronts naming an absent index
CrowdFronts(n) ==
    SeqsUpTo(0..(n - 1), 2)
      \cup {<<0, n>>, <<n, 0, 1>>}
      \cup {f \in [1..n -> 0..(n - 1)] : \A i, j \in 1..n : f[i] = f[j] => i = j}
      \cup {[k \in 1..n |-> IF k = 1 THEN 0 ELSE k - 2]}

InitCrowding ==
    /\ NsgaIdle
    /\ rank_call = NoRankCall
    /\ GenomeIdle
    /\ NetIdle
    /\ \E objs \in [1..MaxPop -> CrowdVectors] :
         \E front \in CrowdFronts(Len(objs)) :
            op_call = [op |-> "crowding_distance", objectives |-> objs,
                       front |-> front, returned |-> FALSE,
                       outcome |-> "pending", result |-> <<>>]

NextCrowding == CrowdingDistance

SpecCrowding == InitCrowding /\ [][NextCrowding]_vars

(***************************************************************************)
(* Floats that are only compared (fitness values, crowding distances):     *)
(* a finite value, an infinity or NaN.  A comparison with NaN is false.    *)
(***************************************************************************)
Fin(v) == <<"fin", v>>

NegInfinity == <<"ninf", 0>>

PosInfinity == <<"inf", 0>>

NaN == <<"nan", 0>>

Level(x) == IF x[1] = "ninf" THEN 0 ELSE IF x[1] = "fin" THEN 1 ELSE 2

\* x > y
FloatGt(x, y) ==
    /\ x[1] # "nan"
    /\ y[1] # "nan"
    /\ \/ Level(x) > Level(y)
       \/ (x[1] = "fin" /\ y[1] = "fin" /\ x[2] > y[2])

\* x >= y
FloatGe(x, y) == x[1] # "nan" /\ y[1] # "nan" /\ ~FloatGt(y, x)

(***************************************************************************)
(* genetic_ops.rs: tournament_select, batch_tournament_select,             *)
(* batch_tournament_select_packed                                          *)
(***************************************************************************)
\* tournament_size.max(2).min(n as i32)
TournamentSize(tournament_size, n) == Min(Max(tournament_size, 2), n)

\* the places rng.gen_range(0..n) can give in the t_size rounds of a tournament
TournamentDraws(n, t_size) == [1..t_size -> 0..(n - 1)]

\* for _ in 0..t_size, from round k on: the drawn entry replaces the best
\* one when fitness > best_fitness
RECURSIVE KeepBestFrom(_, _, _, _)
KeepBestFrom(fitness_vec, draws, k, best) ==
    IF k > Len(draws) THEN best
    ELSE LET entry == At(fitness_vec, draws[k])
         IN  KeepBestFrom(fitness_vec, draws, k + 1,
                 IF FloatGt(entry.fitness, best.fitness)
                 THEN [idx |-> entry.index, fitness |-> entry.fitness]
                 ELSE best)

\* one tournament of tournament_select and batch_tournament_select:
\* best_idx = -1, best_fitness = f32::NEG_INFINITY before the rounds
RunTournament(fitness_vec, draws) ==
    KeepBestFrom(fitness_vec, draws, 1, [idx |-> -1, fitness |-> NegInfinity]).idx

\* the packed array read as entries whose index is their place
PackedEntries(fitness) ==
    [k \in 1..Len(fitness) |-> [index |-> k - 1, fitness |-> fitness[k]]]

\* one tournament of batch_tournament_select_packed: best_idx = 0 before
\* the rounds, and the winner is the drawn place
RunTournamentPacked(fitness, draws) ==
    KeepBestFrom(PackedEntries(fitness), draws, 1,
                 [idx |-> 0, fitness |-> NegInfinity]).idx

\* a plausible slip: only the count is tested
NothingToSelectByCount(n, count) == count <= 0

\* if n == 0 || count <= 0 { return PackedInt32Array::new(); }
NothingToSelect(n, count) == n = 0 \/ count <= 0

OpReturns(draws, result) ==
    op_call' = [op_call EXCEPT !.returned = TRUE, !.outcome = "returned",
                               !.draws = draws, !.result = result]

OpPanics ==
    op_call' = [op_call EXCEPT !.returned = TRUE, !.outcome = "panicked"]

OpPending(op) == op_call.op = op /\ ~op_call.returned

TournamentSelect ==
    /\ OpPending("tournament_select")
    /\ LET n == Len(op_call.indexed_fitness)
           t_size == TournamentSize(op_call.tournament_size, n)
       IN  IF n = 0 THEN OpReturns(<<>>, -1)
           ELSE \E draws \in TournamentDraws(n, t_size) :
                   OpReturns(draws, RunTournament(op_call.indexed_fitness, draws))
    /\ UNCHANGED <<nsgaVars, genomeVars, speciesVars, netVars>>

BatchTournamentSelect ==
    /\ OpPending("batch_tournament_select")
    /\ LET n == Len(op_call.indexed_fitness)
           t_size == TournamentSize(op_call.tournament_size, n)
       IN  IF NothingToSelect(n, op_call.count) THEN OpReturns(<<>>, <<>>)
           ELSE \E draws \in [1..op_call.count -> TournamentDraws(n, t_size)] :
                   OpReturns(draws,
                       [c \in 1..op_call.count |->
                           RunTournament(op_call.indexed_fitness, draws[c])])
    /\ UNCHANGED <<nsgaVars, genomeVars, speciesVars, netVars>>

BatchTournamentSelectPacked ==
    /\ OpPending("batch_tournament_select_packed")
    /\ LET n == Len(op_call.fitness)
           t_size == TournamentSize(op_call.tournament_size, n)
       IN  IF n = 0 \/ op_call.count <= 0 THEN OpReturns(<<>>, <<>>)
           ELSE \E draws \in [1..op_call.count -> TournamentDraws(n, t_size)] :
                   OpReturns(draws,
                       [c \in 1..op_call.count |->
                           RunTournamentPacked(op_call.fitness, draws[c])])
    /\ UNCHANGED <<nsgaVars, genomeVars, speciesVars, netVars>>

(***************************************************************************)
(* nsga2.rs: tournament_select                                             *)
(***************************************************************************)
I32Max == 2147483647

\* if a < ranks.len() { ranks[a] } else { i32::MAX }
RankAt(ranks, i) == IF i < Len(ranks) THEN At(ranks, i) ELSE I32Max

\* a plausible slip: ">" on the crowding distances, so a tie goes to b
CrowdedPickStrict(crowding, a, b) == IF FloatGt(crowding[a], crowding[b]) THEN a ELSE b

\* if cd_a >= cd_b { a } else { b }
CrowdedPick(crowding, a, b) == IF FloatGe(crowding[a], crowding[b]) THEN a ELSE b

\* the comparison of the candidates a and b once both are drawn
CrowdedComparison(ranks, crowding, a, b) ==
    IF RankAt(ranks, a) < RankAt(ranks, b) THEN a
    ELSE IF RankAt(ranks, b) < RankAt(ranks, a) THEN b
    ELSE CrowdedPick(crowding, a, b)

\* crowding.get_or_nil(a as i32).to::<f64>() panics on the nil of an absent key
CrowdingLookupPanics(ranks, crowding, a, b) ==
    /\ RankAt(ranks, a) = RankAt(ranks, b)
    /\ (a \notin DOMAIN crowding \/ b \notin DOMAIN crowding)

\* a and b as they stand after the while loop: b is redrawn until it differs
\* from a, unless n = 1
ParetoTournamentSelect ==
    /\ OpPending("nsga2_tournament_select")
    /\ LET n == op_call.pop_size
       IN  IF n = 0 THEN OpReturns(<<>>, 0)
           ELSE \E a \in 0..(n - 1), b \in 0..(n - 1) :
                   /\ (b # a \/ n = 1)
                   /\ IF CrowdingLookupPanics(op_call.rank_map, op_call.crowding, a, b)
                      THEN OpPanics
                      ELSE OpReturns(<<a, b>>,
                               CrowdedComparison(op_call.rank_map,
                                                 op_call.crowding, a, b))
    /\ UNCHANGED <<nsgaVars, genomeVars, speciesVars, netVars>>

(***************************************************************************)
(* Specification of the tournament selections                              *)
(***************************************************************************)
\* largest population handed to a tournament
MaxEntries == 3

FitVals == {NegInfinity, Fin(0), Fin(1)}

\* fitness lists: every list over FitVals, and two lists holding NaN
FitnessLists == SeqsUpTo(FitVals, MaxEntries) \cup {<<NaN>>, <<NaN, Fin(0)>>}

\* the "index" of the entry at a place: the place itself, or the place in a
\* larger population the entries were taken from
IndexShifts == {0, 5}

IndexedFitness(fits, shift) ==
    [k \in 1..Len(fits) |-> [index |-> k - 1 + shift, fitness |-> fits[k]]]

TournamentSizes == {1, 3}

\* a batch of two is drawn for tournaments of two rounds only
BatchArgs == {<<0, 1>>, <<0, 3>>, <<1, 1>>, <<1, 3>>, <<2, 1>>}

CrowdVals == {Fin(0), Fin(1), PosInfinity}

\* rank maps and crowding maps for a population of n: complete ones, and
\* for n > 0 a rank map and a crowding map that lack the last index
ParetoArgs(n) ==
    {[rank_map |-> r, crowding |-> c] :
        r \in [1..n -> 0..1], c \in [0..(n - 1) -> CrowdVals]}
      \cup (IF n = 0 THEN {}
            ELSE {[rank_map |-> [k \in 1..(n - 1) |-> 0],
                   crowding |-> [i \in 0..(n - 2) |-> Fin(0)]]})

InitSelect ==
    /\ NsgaIdle
    /\ rank_call = NoRankCall
    /\ GenomeIdle
    /\ NetIdle
    /\ \/ \E fits \in FitnessLists, shift \in IndexShifts, ts \in TournamentSizes :
            op_call = [op |-> "tournament_select",
                       indexed_fitness |-> IndexedFitness(fits, shift),
                       tournament_size |-> ts, returned |-> FALSE,
                       outcome |-> "pending", draws |-> <<>>, result |-> <<>>]
       \/ \E fits \in FitnessLists, shift \in IndexShifts, b \in BatchArgs :
            op_call = [op |-> "batch_tournament_select",
                       indexed_fitness |-> IndexedFitness(fits, shift),
                       count |-> b[1], tournament_size |-> b[2], returned |-> FALSE,
                       outcome |-> "pending", draws |-> <<>>, result |-> <<>>]
       \/ \E fits \in FitnessLists, b \in BatchArgs :
            op_call = [op |-> "batch_tournament_select_packed",
                       fitness |-> fits,
                       count |-> b[1], tournament_size |-> b[2], returned |-> FALSE,
                       outcome |-> "pending", draws |-> <<>>, result |-> <<>>]
       \/ \E n \in 0..MaxEntries : \E args \in ParetoArgs(n) :
            op_call = [op |-> "nsga2_tournament_select", pop_size |-> n,
                       rank_map |-> args.rank_map, crowding |-> args.crowding,
                       returned |-> FALSE,
                       outcome |-> "pending", draws |-> <<>>, result |-> <<>>]

NextSelect ==
    \/ TournamentSelect
    \/ BatchTournamentSelect
    \/ BatchTournamentSelectPacked
    \/ ParetoTournamentSelect

SpecSelect == InitSelect /\ [][NextSelect]_vars

(***************************************************************************)
(* genetic_ops.rs: crossover_weights, batch_crossover                      *)
(* neural_network.rs: crossover_with                                       *)
(***************************************************************************)
\* a plausible slip: the suffix taken from b
TwoPointSuffixFromB(a, b, point1, point2) ==
    SubSeq(a, 1, point1) \o SubSeq(b, point1 + 1, Len(b))

\* a[..point1] ++ b[point1..point2] ++ a[point2..], for point1 <= point2
TwoPoint(a, b, point1, point2) ==
    SubSeq(a, 1, point1) \o SubSeq(b, point1 + 1, point2)
        \o SubSeq(a, point2 + 1, Len(a))

\* the two rng.gen_range(0..len) draws
CutDraws(len) == (0..(len - 1)) \X (0..(len - 1))

\* if point1 > point2 { swap }, then the three segments
CrossoverChild(a, b, draw) ==
    TwoPoint(a, b, Min(draw[1], draw[2]), Max(draw[1], draw[2]))

CrossoverWeights ==
    /\ OpPending("crossover_weights")
    /\ LET a == op_call.weights_a
           b == op_call.weights_b
           len == Min(Len(a), Len(b))
       IN  IF len = 0 THEN OpReturns(<<>>, <<>>)
           ELSE \E draw \in CutDraws(len) :
                   OpReturns(draw, CrossoverChild(a, b, draw))
    /\ UNCHANGED <<nsgaVars, genomeVars, speciesVars, netVars>>

BatchCrossover ==
    /\ OpPending("batch_crossover")
    /\ LET a == op_call.weights_a
           b == op_call.weights_b
           len == Min(Len(a), Len(b))
       IN  IF len = 0 \/ op_call.count <= 0 THEN OpReturns(<<>>, <<>>)
           ELSE \E draws \in [1..op_call.count -> CutDraws(len)] :
                   OpReturns(draws,
                       [c \in 1..op_call.count |-> CrossoverChild(a, b, draws[c])])
    /\ UNCHANGED <<nsgaVars, genomeVars, speciesVars, netVars>>

\* child_weights: a copy of weights_a with weights_b[i] written at every i
\* in point1..point2
ChildWeights(weights_a, weights_b, point1, point2) ==
    [k \in 1..Len(weights_a) |->
        IF point1 <= k - 1 /\ k - 1 < point2 THEN weights_b[k] ELSE weights_a[k]]

\* weights_b[i] panics for an i the other network's vector does not have
SegmentPanics(weights_b, point1, point2) ==
    \E i \in point1..(point2 - 1) : i >= Len(weights_b)

\* Self::create with the sizes of self, enable_memory if self has it, then
\* set_weights(child_weights)
ChildNetwork(n, child_weights, mode) ==
    LET fresh == Create(n.input_size, n.hidden_size, n.output_size, mode)
    IN  SetWeightsOf(IF n.use_memory THEN EnableMemoryOf(fresh, mode) ELSE fresh,
                     child_weights)

\* self.crossover_with(other): self is nn, other is held by the call.
\* rng.gen_range(0..len) panics on the empty range of a network without
\* weights.
CrossoverWith ==
    /\ OpPending("crossover_with")
    /\ LET weights_a == GetWeights(nn)
           weights_b == GetWeights(op_call.other)
           len == Len(weights_a)
       IN  IF len = 0 THEN OpPanics
           ELSE \E draw \in CutDraws(len), mode \in DrawModes :
                   LET point1 == Min(draw[1], draw[2])
                       point2 == Max(draw[1], draw[2])
                   IN  IF SegmentPanics(weights_b, point1, point2) THEN OpPanics
                       ELSE OpReturns(draw,
                               ChildNetwork(nn,
                                   ChildWeights(weights_a, weights_b, point1, point2),
                                   mode))
    /\ UNCHANGED <<nsgaVars, genomeVars, speciesVars, netVars>>

(***************************************************************************)
(* Specification of the flat crossovers                                    *)
(***************************************************************************)
\* longest flat weight vector handed to crossover_weights and batch_crossover
MaxWeights == 3

\* parent A holds 11, 12, ...; parent B holds 21, 22, ...
FlatWeights(base, len) == [k \in 1..len |-> base + k]

CrossCounts == {0, 1, 2}

\* the architectures of the networks crossed, one of them without weights
CrossArchitectures == {<<0, 0, 0>>, <<1, 1, 1>>, <<1, 1, 2>>}

CrossNetworks ==
    UNION {{Create(a[1], a[2], a[3], "distinct"),
            EnableMemoryOf(Create(a[1], a[2], a[3], "distinct"), "distinct")} :
              a \in CrossArchitectures}

\* the other network: one whose weights were set to 61, 62, ...
OtherNetworks ==
    {SetWeightsOf(n, [k \in 1..GetWeightCount(n) |-> Const(60 + k)]) :
        n \in CrossNetworks}

InitCross ==
    /\ NsgaIdle
    /\ rank_call = NoRankCall
    /\ GenomeIdle
    /\ nn_calls = <<>>
    /\ neat = [node_order |-> <<>>]
    /\ neat_calls = <<>>
    /\ \/ /\ nn = [input_size |-> 0]
          /\ \E la \in 0..MaxWeights, lb \in 0..MaxWeights :
                \/ op_call = [op |-> "crossover_weights",
                              weights_a |-> FlatWeights(10, la),
                              weights_b |-> FlatWeights(20, lb),
                              returned |-> FALSE, outcome |-> "pending",
                              draws |-> <<>>, result |-> <<>>]
                \/ \E count \in CrossCounts :
                      op_call = [op |-> "batch_crossover",
                                 weights_a |-> FlatWeights(10, la),
                                 weights_b |-> FlatWeights(20, lb),
                                 count |-> count,
                                 returned |-> FALSE, outcome |-> "pending",
                                 draws |-> <<>>, result |-> <<>>]
       \/ /\ nn \in CrossNetworks
          /\ \E other \in OtherNetworks :
                op_call = [op |-> "crossover_with", other |-> other,
                           returned |-> FALSE, outcome |-> "pending",
                           draws |-> <<>>, result |-> <<>>]

NextCross == CrossoverWeights \/ BatchCrossover \/ CrossoverWith

SpecCross == InitCross /\ [][NextCross]_vars

(***************************************************************************)
(* Properties of nsga2.rs                                                  *)
(***************************************************************************)
PopIndices == 0..(Len(objectives) - 1)

\* the dominance rule as the specification words it
DominanceRule(a, b) ==
    /\ \A m \in 1..3 : a[m] >= b[m]
    /\ \E m \in 1..3 : a[m] > b[m]

FrontsBuilt == \A k \in 1..Len(fronts) : Range(fronts[k]) \subseteq PopIndices

\* the fronts built so far are non-empty and hold no index twice, within a
\* front or across fronts
FrontsDisjoint ==
    /\ \A k \in 1..Len(fronts) : fronts[k] # <<>>
    /\ \A k \in 1..Len(fronts) : Cardinality(Range(fronts[k])) = Len(fronts[k])
    /\ \A k, l \in 1..Len(fronts) :
          k # l => Range(fronts[k]) \cap Range(fronts[l]) = {}
    /\ FrontsBuilt

SortPartitionInv ==
    /\ FrontsDisjoint
    /\ Len(fronts) <= Len(objectives)
    /\ (pc = "done" /\ Len(objectives) >= 1) =>
          UNION {Range(fronts[k]) : k \in 1..Len(fronts)} = PopIndices

\* C1: for n >= 1 objective vectors the fronts returned by non_dominated_sort
\* partition 0..n-1 (every index in exactly one front, no front empty, never
\* more fronts than individuals), and the front-building loop terminates:
\* the sort reaches its return.
C1_SortPartitionsAndTerminates == []SortPartitionInv /\ <>(pc = "done")

\* a finished sort of three individuals in three fronts
C1_Witness ==
    /\ pc = "done"
    /\ Len(objectives) = 3
    /\ Len(fronts) = 3

\* C2: in the result of non_dominated_sort front 0 holds no pair where one
\* dominates the other, and every individual of front k+1 is dominated by at
\* least one individual of front k.
C2_FrontsLayered ==
    pc = "done" =>
      /\ FrontsBuilt
      /\ Len(fronts) >= 1 =>
            \A a, b \in Range(fronts[1]) :
                ~DominanceRule(At(objectives, a), At(objectives, b))
      /\ \A k \in 1..(Len(fronts) - 1) :
            \A j \in Range(fronts[k + 1]) :
                \E i \in Range(fronts[k]) :
                    DominanceRule(At(objectives, i), At(objectives, j))

\* a finished sort whose front 0 has two members and whose front 1 is not empty
C2_Witness ==
    /\ pc = "done"
    /\ Len(fronts) >= 2
    /\ Len(fronts[1]) >= 2

\* C3: dominates(A, B) is true exactly when A >= B on all 3 objectives and
\* A > B on at least one; it is false for equal vectors and for trade-offs, is
\* irreflexive and never holds both ways. Stated of every pair of objective
\* vectors of the population, and of what the pairwise comparison recorded.
C3_DominatesIsTheRule ==
    /\ \A i, j \in PopIndices :
          LET a == At(objectives, i)
              b == At(objectives, j)
          IN  /\ Dominates(a, b) <=> DominanceRule(a, b)
              /\ a = b => ~Dominates(a, b)
              /\ (\E m, l \in 1..3 : a[m] > b[m] /\ a[l] < b[l]) => ~Dominates(a, b)
              /\ ~(Dominates(a, b) /\ Dominates(b, a))
    /\ pc = "loop" =>
          \A i, j \in PopIndices :
              (j \in Range(dominated_set[i])) <=>
                  DominanceRule(At(objectives, i), At(objectives, j))

\* the comparison ran on a population with a trade-off pair and a dominating
\* pair (every vector is equal to itself)
C3_Witness ==
    /\ pc = "loop"
    /\ \E i, j \in PopIndices :
          \E m, l \in 1..3 : /\ At(objectives, i)[m] > At(objectives, j)[m]
                             /\ At(objectives, i)[l] < At(objectives, j)[l]
    /\ \E i \in PopIndices : dominated_set[i] # <<>>

\* C4: build_rank_map(fronts, populationSize) returns an array of length
\* populationSize in which every index that appears in a front holds that
\* front's position and every index of 0..populationSize-1 in no front holds
\* len(fronts); entries outside 0..populationSize-1 are ignored.
C4_RankMap ==
    rank_call.returned =>
      LET fs == rank_call.fronts
          n  == rank_call.pop_size
          r  == rank_call.ranks
      IN  /\ DOMAIN r = 0..(n - 1)
          /\ \A i \in 0..(n - 1) :
                /\ \A k \in 1..Len(fs) : i \in Range(fs[k]) => r[i] = k - 1
                /\ (\A k \in 1..Len(fs) : i \notin Range(fs[k])) => r[i] = Len(fs)

\* a call with an index in the second front, an index in no front and an
\* entry outside 0..populationSize-1
C4_Witness ==
    /\ rank_call.returned
    /\ Len(rank_call.fronts) = 2
    /\ \E i \in 0..(rank_call.pop_size - 1) : i \in Range(rank_call.fronts[2])
    /\ \E i \in 0..(rank_call.pop_size - 1) :
          \A k \in 1..2 : i \notin Range(rank_call.fronts[k])
    /\ \E k \in 1..2 : \E x \in Range(rank_call.fronts[k]) :
          x < 0 \/ x >= rank_call.pop_size

\* build_rank_map was called on the fronts of the finished sort with the
\* size of the population
RankedWholeSort ==
    /\ pc = "done"
    /\ rank_call.returned
    /\ rank_call.fronts = fronts
    /\ rank_call.pop_size = Len(objectives)

\* C30: in build_rank_map(non_dominated_sort(objs), n) every individual has
\* a rank below the number of fronts, an individual that dominates another
\* has the strictly lower rank, and so no front holds a dominating pair
C30_RankRespectsDominance ==
    RankedWholeSort =>
        /\ \A i \in PopIndices : rank_call.ranks[i] \in 0..(Len(fronts) - 1)
        /\ \A a, b \in PopIndices :
              DominanceRule(At(objectives, a), At(objectives, b))
                  => rank_call.ranks[a] < rank_call.ranks[b]
        /\ \A k \in 1..Len(fronts) : \A a, b \in Range(fronts[k]) :
              ~DominanceRule(At(objectives, a), At(objectives, b))

\* a ranked sort of three fronts, one of them of two individuals
C30_Witness ==
    /\ RankedWholeSort
    /\ Len(fronts) >= 3
    /\ \E k \in 1..Len(fronts) : Len(fronts[k]) >= 2
    /\ \E a, b \in PopIndices : rank_call.ranks[b] = rank_call.ranks[a] + 2

(***************************************************************************)
(* Properties of neat_genome.rs: distance                                  *)
(***************************************************************************)
CallConnsA(call) == ConnsOf(gene_heap, genomes[call.a])

CallConnsB(call) == ConnsOf(gene_heap, genomes[call.b])

\* the weight of the gene of innovation i in a gene list that has one
WeightAt(conns, i) == (CHOOSE k \in 1..Len(conns) : conns[k].innovation = i)
WeightOf(conns, i) == conns[WeightAt(conns, i)].weight

MatchingInnovs(ca, cb) == InnovationsOf(ca) \cap InnovationsOf(cb)

\* the matching innovations on which the two genomes differ in weight
DifferingInnovs(ca, cb) ==
    {i \in MatchingInnovs(ca, cb) : WeightOf(ca, i) # WeightOf(cb, i)}

C6_DistanceToSelfIsZero ==
    \A k \in 1..Len(dist_calls) :
        CallConnsA(dist_calls[k]) = CallConnsB(dist_calls[k])
            => dist_calls[k].result.d = F32Zero

\* distance(G, G) was computed for a genome of three genes of nonzero weight
C6_Witness ==
    \E k \in 1..Len(dist_calls) :
        /\ dist_calls[k].a = dist_calls[k].b
        /\ Len(CallConnsA(dist_calls[k])) = 3
        /\ \A j \in 1..3 : CallConnsA(dist_calls[k])[j].weight # F32Zero

\* the highest innovation of a gene list (0 for an empty one)
HighestInnov(conns) ==
    IF conns = <<>> THEN 0
    ELSE CHOOSE i \in InnovationsOf(conns) : \A j \in InnovationsOf(conns) : j <= i

\* the f32 sum of |wA - wB| over the innovations of order
RECURSIVE SumOfDiffs(_, _, _)
SumOfDiffs(order, ca, cb) ==
    IF order = <<>> THEN F32Zero
    ELSE LET rest == SubSeq(order, 1, Len(order) - 1)
             i    == order[Len(order)]
         IN  F32Add(SumOfDiffs(rest, ca, cb),
                    F32Abs(F32Sub(WeightOf(ca, i), WeightOf(cb, i))))

\* C7: every innovation present in exactly one genome counts as excess when
\* it exceeds min(maxInnovA, maxInnovB) and as disjoint otherwise; the
\* result is c1*excess + c2*disjoint + c3*(weight-difference sum over the
\* matching genes / their number, 0 when none match), the excess and
\* disjoint terms divided by n = max(|A|, |B|, 1) exactly when n > 20.
C7_DistanceFormula ==
    \A k \in 1..Len(dist_calls) :
        LET call  == dist_calls[k]
            ca    == CallConnsA(call)
            cb    == CallConnsB(call)
            r     == call.result
            only  == (InnovationsOf(ca) \cup InnovationsOf(cb)) \ MatchingInnovs(ca, cb)
            bound == Min(HighestInnov(ca), HighestInnov(cb))
            n     == Max(Max(Len(ca), Len(cb)), 1)
            avg   == IF r.matching = 0 THEN F32Zero
                     ELSE F32DivInt(r.weight_diff, r.matching)
            e     == F32MulInt(call.config.compatibility_excess_coeff, F32FromInt(r.excess))
            dj    == F32MulInt(call.config.compatibility_disjoint_coeff,
                               F32FromInt(r.disjoint))
            w     == F32MulInt(call.config.compatibility_weight_coeff, avg)
        IN  /\ r.excess = Cardinality({i \in only : i > bound})
            /\ r.disjoint = Cardinality({i \in only : i <= bound})
            /\ r.matching = Cardinality(MatchingInnovs(ca, cb))
            /\ r.weight_diff \in {SumOfDiffs(o, ca, cb) : o \in Perms(DifferingInnovs(ca, cb))}
            /\ n > 20  => r.d = F32Add(F32Add(F32DivInt(e, n), F32DivInt(dj, n)), w)
            /\ n <= 20 => r.d = F32Add(F32Add(e, dj), w)

\* a call on genomes of exactly 20 connections with excess, disjoint and
\* matching genes
C7_Witness ==
    \E k \in 1..Len(dist_calls) :
        /\ Max(Len(CallConnsA(dist_calls[k])), Len(CallConnsB(dist_calls[k]))) = 20
        /\ dist_calls[k].result.excess > 0
        /\ dist_calls[k].result.disjoint > 0
        /\ dist_calls[k].result.matching > 0

\* a call on genomes of 21 connections, where the terms are divided
C7_NormalizedReached ==
    \E k \in 1..Len(dist_calls) :
        /\ Max(Len(CallConnsA(dist_calls[k])), Len(CallConnsB(dist_calls[k]))) = 21
        /\ dist_calls[k].result.excess > 0

(***************************************************************************)
(* Properties of crossover                                                 *)
(***************************************************************************)
\* the parent the specification calls the fitter one: the one of higher
\* fitness, parent A on a tie; and the other one
CrossFitter ==
    IF cross_call.parent_b.fitness > cross_call.parent_a.fitness
    THEN cross_call.parent_b ELSE cross_call.parent_a

CrossLessFit ==
    IF cross_call.parent_b.fitness > cross_call.parent_a.fitness
    THEN cross_call.parent_a ELSE cross_call.parent_b

\* the innovation numbers of the genes an Array of handles held at the call
CrossInnovs(conns) == {cross_call.heap[conns[k]].innovation : k \in 1..Len(conns)}

\* C8: the child of a crossover has as many genes as the fitter parent (A on
\* a tie), its i-th gene has the innovation of the fitter parent's i-th gene
\* and is that gene or the other parent's gene of the same innovation, and no
\* innovation of the less-fit parent alone appears in the child
C8_CrossoverFollowsFitter ==
    cross_call.called =>
        LET child == cross_call.result.connections
            fit == CrossFitter.connections
            less == CrossLessFit.connections
            heap == cross_call.heap
        IN  /\ Len(child) = Len(fit)
            /\ \A i \in 1..Len(child) :
                  /\ heap[child[i]].innovation = heap[fit[i]].innovation
                  /\ \/ child[i] = fit[i]
                     \/ \E j \in 1..Len(less) :
                           /\ child[i] = less[j]
                           /\ heap[less[j]].innovation = heap[fit[i]].innovation
            /\ CrossInnovs(child) \cap (CrossInnovs(less) \ CrossInnovs(fit)) = {}

\* a crossover of two different parents of equal fitness and different gene
\* counts, the child holding a gene of each parent and the less-fit parent
\* holding an innovation the fitter one lacks
C8_Witness ==
    /\ cross_call.called
    /\ cross_call.a # cross_call.b
    /\ cross_call.parent_a.fitness = cross_call.parent_b.fitness
    /\ Len(cross_call.parent_a.connections) # Len(cross_call.parent_b.connections)
    /\ Range(cross_call.result.connections) \cap Range(CrossFitter.connections) # {}
    /\ Range(cross_call.result.connections) \cap Range(CrossLessFit.connections) # {}
    /\ CrossInnovs(CrossLessFit.connections) \ CrossInnovs(CrossFitter.connections) # {}

(***************************************************************************)
(* Properties of mutate                                                    *)
(***************************************************************************)
\* every rate of the config is 1.0
AllRatesOne(config) ==
    /\ config.mutation_rate = RateOne
    /\ config.weight_mutation_rate = RateOne
    /\ config.weight_replace_rate = RateOne
    /\ config.conn_enable_rate = RateOne
    /\ config.conn_disable_rate = RateOne
    /\ config.conn_delete_rate = RateOne

\* the genes the genome held when mutate was called
MutGenes == Range(mut_call.before.genome.connections)

\* those of them that were disabled, and enabled, at the call
MutDisabled == {h \in MutGenes : ~mut_call.before.heap[h].enabled}

MutEnabled == {h \in MutGenes : mut_call.before.heap[h].enabled}

\* those whose enabled flag after the call differs from the one before
MutFlipped ==
    {h \in MutGenes : mut_call.after.heap[h].enabled # mut_call.before.heap[h].enabled}

\* those whose weight after the call is the weight before
MutSameWeight ==
    {h \in MutGenes : mut_call.after.heap[h].weight = mut_call.before.heap[h].weight}

\* C9: a call of mutate with mutation_rate 0 leaves the genome as it was,
\* its connections and every gene, whatever the other rates are
C9_RateZeroChangesNothing ==
    (mut_call.called /\ mut_call.config.mutation_rate = 0) =>
        /\ mut_call.after = mut_call.before
        /\ gene_heap = mut_call.before.heap
        /\ genomes[mut_call.genome] = mut_call.before.genome

\* a call with mutation_rate 0 and every other rate 1.0 on a genome of three
\* genes, one of them disabled and one of weight 2.0
C9_Witness ==
    /\ mut_call.called
    /\ mut_call.config.mutation_rate = 0
    /\ mut_call.config.weight_mutation_rate = RateOne
    /\ mut_call.config.conn_delete_rate = RateOne
    /\ Len(mut_call.before.genome.connections) = Cardinality(CoreInnovs)
    /\ MutDisabled # {}
    /\ \E h \in MutGenes : mut_call.before.heap[h].weight = W2

\* a connection is eligible for a flip: a disabled one for the enable step, an
\* enabled one of a genome of several connections for the disable step
MutEligible ==
    \/ MutDisabled # {}
    \/ MutEnabled # {} /\ Len(mut_call.before.genome.connections) > 1

\* C10 as the specification states it: with every rate at 1.0 each connection's
\* weight differs after the call, and exactly one connection's enabled flag
\* differs whenever an eligible connection exists
C10_Original_EveryWeightChangesOneFlip ==
    (mut_call.called /\ AllRatesOne(mut_call.config)) =>
        /\ MutSameWeight = {}
        /\ MutEligible => Cardinality(MutFlipped) = 1

\* C10: with every rate at 1.0 mutate runs every step.  Each weight is a fresh
\* draw of [-2, 2) and may be the old weight.  One disabled connection, if
\* there is one, is enabled; then, in a genome of several connections, one
\* enabled connection is disabled, possibly the one just enabled.  So the
\* flag differs on exactly one connection when nothing was disabled and there
\* are several connections, or when the only connection was disabled; on none
\* or on two (one newly enabled, one newly disabled) when there are several
\* connections and one was disabled; on none otherwise.  Last, a genome of
\* several connections loses one of them.
C10_AllRatesOneRunsEveryStep ==
    (mut_call.called /\ AllRatesOne(mut_call.config)) =>
        LET len == Len(mut_call.before.genome.connections)
            flipped == MutFlipped
        IN  /\ ~mut_call.skipped
            /\ \A h \in MutGenes :
                  /\ ~F32Less(mut_call.after.heap[h].weight, F32Neg(W2))
                  /\ F32Less(mut_call.after.heap[h].weight, W2)
            /\ (MutDisabled = {} /\ len > 1) =>
                  Cardinality(flipped) = 1 /\ flipped \subseteq MutEnabled
            /\ (MutDisabled # {} /\ len = 1) => flipped = MutDisabled
            /\ (MutDisabled = {} /\ len <= 1) => flipped = {}
            /\ (MutDisabled # {} /\ len > 1) =>
                  \/ flipped = {}
                  \/ /\ Cardinality(flipped) = 2
                     /\ Cardinality(flipped \cap MutDisabled) = 1
                     /\ Cardinality(flipped \cap MutEnabled) = 1
            /\ IF len > 1
               THEN /\ mut_call.deleted_idx \in 1..len
                    /\ mut_call.after.genome.connections =
                          RemoveAt(mut_call.before.genome.connections, mut_call.deleted_idx)
               ELSE mut_call.after.genome.connections = mut_call.before.genome.connections

\* a call with every rate at 1.0 on a genome of several connections, one of
\* them disabled: two flags differ afterwards and one weight is the old one
C10_Witness ==
    /\ mut_call.called
    /\ AllRatesOne(mut_call.config)
    /\ Len(mut_call.before.genome.connections) > 1
    /\ MutDisabled # {}
    /\ Cardinality(MutFlipped) = 2
    /\ MutSameWeight # {}

\* after is before with at most one element taken out
OneRemoved(before, after) ==
    \/ after = before
    \/ \E k \in 1..Len(before) : after = SubSeq(before, 1, k - 1) \o SubSeq(before, k + 1, Len(before))

\* C28: a call of mutate on a genome with at least one connection, at any
\* point of a sequence of calls, leaves the connections it had or takes one
\* of them out, leaves at least one, adds no gene, and changes neither the
\* nodes nor the innovation number of any gene
C28_NoStructuralGrowth ==
    [][genomes[1].connections # <<>> =>
          /\ OneRemoved(genomes[1].connections, genomes'[1].connections)
          /\ genomes'[1].connections # <<>>
          /\ genomes'[1].nodes = genomes[1].nodes
          /\ Len(genomes') = Len(genomes)
          /\ Len(gene_heap') = Len(gene_heap)
          /\ \A h \in 1..Len(gene_heap) : gene_heap'[h].innovation = gene_heap[h].innovation]_vars

\* a genome of three connections that calls of mutate have brought down to
\* one, the last call with the deletion step drawn again
C28_Witness ==
    /\ mut_call.called
    /\ Len(gene_heap) = 3
    /\ Len(genomes[1].connections) = 1
    /\ Len(mut_call.before.genome.connections) = 1
    /\ ~mut_call.skipped

(***************************************************************************)
(* Properties of speciate                                                  *)
(***************************************************************************)
\* the speciate calls made on the (non-empty) population
SpeciateCalls == {k \in 1..Len(spec_calls) : genomes # <<>>}

PopulationIndices == 0..(Len(genomes) - 1)

\* the places <<species, position>> at which the result of a call lists a
\* population index as a member
MemberPlaces(call, i) ==
    {<<k, j>> \in (1..Len(call.result.species)) \X (1..Len(genomes)) :
        /\ j <= Len(call.result.species[k].members)
        /\ call.result.species[k].members[j] = i}

\* the ids of the existing species of a call that took a genome in
ReceivingIds(call) ==
    {call.candidates[call.genome_species[g]].id :
        g \in {h \in 1..Len(genomes) : call.genome_species[h] # 0}}

ResultIds(call) == {call.result.species[k].id : k \in 1..Len(call.result.species)}

\* C11: after speciate on a non-empty population every population index is a
\* member of exactly one returned species, no returned species is without
\* members, and an existing species that received no genome is not returned
C11_SpeciesPartitionPopulation ==
    \A c \in SpeciateCalls :
        LET call == spec_calls[c] IN
        /\ \A i \in PopulationIndices : Cardinality(MemberPlaces(call, i)) = 1
        /\ \A k \in 1..Len(call.result.species) :
              /\ call.result.species[k].members # <<>>
              /\ Range(call.result.species[k].members) \subseteq PopulationIndices
        /\ \A e \in 1..Len(call.call.existing_species) :
              call.call.existing_species[e].id \notin ReceivingIds(call)
                  => call.call.existing_species[e].id \notin ResultIds(call)

\* a call on three genomes with two existing species that have members: one
\* of them receives a genome, the other none, and a new species is made
C11_Witness ==
    \E c \in SpeciateCalls :
        LET call == spec_calls[c] IN
        /\ Len(genomes) = 3
        /\ Len(call.candidates) = 2
        /\ Cardinality(ReceivingIds(call)) = 1
        /\ \E g \in 1..Len(genomes) : call.genome_species[g] = 0

\* the partition of the population a call returned: the member sets of its
\* species
SpeciesPartition(call) ==
    {Range(call.result.species[k].members) : k \in 1..Len(call.result.species)}

\* two calls were made with the same existing species, threshold and next id,
\* and picked the same candidate representatives
SameRepresentatives ==
    /\ Len(spec_calls) = 2
    /\ genomes # <<>>
    /\ spec_calls[1].call = spec_calls[2].call
    /\ spec_calls[1].candidates = spec_calls[2].candidates

\* C12: speciate run twice on an unchanged population with the same
\* representatives and threshold returns the same number of species and the
\* same partition of the population
C12_Original_SameRepresentativesSamePartition ==
    SameRepresentatives =>
        /\ Len(spec_calls[1].result.species) = Len(spec_calls[2].result.species)
        /\ SpeciesPartition(spec_calls[1]) = SpeciesPartition(spec_calls[2])


\* the two calls also measured the same distances
C12_SamePartitionWhenSameDistances ==
    (SameRepresentatives /\ spec_calls[1].distances = spec_calls[2].distances) =>
        /\ Len(spec_calls[1].result.species) = Len(spec_calls[2].result.species)
        /\ SpeciesPartition(spec_calls[1]) = SpeciesPartition(spec_calls[2])


\* the id of the returned species that lists population index i as a member
SpeciesIdOf(call, i) ==
    LET k == CHOOSE k \in 1..Len(call.result.species) :
                 i \in Range(call.result.species[k].members)
    IN  call.result.species[k].id

\* C13: each genome joins the first existing species, in list order, whose
\* candidate representative is at a distance strictly below the threshold,
\* whatever the later species are; it joins no species whose candidate
\* representative is at a distance >= the threshold, and a genome that has all
\* candidate representatives at such a distance joins no existing species
C13_FirstMatchWins ==
    \A c \in SpeciateCalls :
        LET call == spec_calls[c]
            threshold == call.call.compatibility_threshold
        IN  \A i \in PopulationIndices :
              LET measured == call.distances[i + 1]
                  found == call.genome_species[i + 1]
                  existing_ids == {call.candidates[k].id : k \in 1..Len(call.candidates)}
              IN  /\ \A k \in 1..Len(measured) :
                        measured[k] \in SpeciesDistances(i, call.candidates[k].representative)
                  /\ IF found # 0
                     THEN /\ Len(measured) = found
                          /\ F32Less(measured[found], threshold)
                          /\ \A k \in 1..(found - 1) : ~F32Less(measured[k], threshold)
                          /\ SpeciesIdOf(call, i) = call.candidates[found].id
                     ELSE /\ Len(measured) = Len(call.candidates)
                          /\ \A k \in 1..Len(measured) : ~F32Less(measured[k], threshold)
                          /\ SpeciesIdOf(call, i) \notin existing_ids

\* a genome joins the first of two existing species although the candidate
\* representative of the second is closer, and another genome stays out of a
\* species whose candidate representative is at exactly the threshold
C13_Witness ==
    \E c \in SpeciateCalls :
        LET call == spec_calls[c] IN
        /\ Len(call.candidates) = 2
        /\ \E i \in PopulationIndices :
              /\ call.genome_species[i + 1] = 1
              /\ \A later \in SpeciesDistances(i, call.candidates[2].representative) :
                    F32Less(later, call.distances[i + 1][1])
        /\ \E i \in PopulationIndices :
              /\ call.genome_species[i + 1] # 1
              /\ call.distances[i + 1][1] = call.call.compatibility_threshold


\* the population indices that matched no existing species in a call
Unmatched(call) == {i \in PopulationIndices : call.genome_species[i + 1] = 0}

\* the id the specification gives the new species of unmatched genome i: ids
\* run from next_species_id on, in index order
NewIdOf(call, i) ==
    call.call.next_species_id + Cardinality({j \in Unmatched(call) : j < i})

\* the ids a call allocated
AllocatedIds(call) == {NewIdOf(call, i) : i \in Unmatched(call)}

\* C14: every genome that matches no existing species is returned as a new
\* species with that genome as sole member and representative; the new
\* species have the ids next_species_id, next_species_id + 1, ...; the
\* returned next_id is next_species_id plus the number of new species; and a
\* call that is handed the next_id an earlier call returned allocates none of
\* the ids that call allocated
C14_NewSpeciesIds ==
    /\ \A c \in 1..Len(spec_calls) :
          LET call == spec_calls[c] IN
          /\ \A i \in Unmatched(call) :
                \E k \in 1..Len(call.result.species) :
                    /\ call.result.species[k].id = NewIdOf(call, i)
                    /\ call.result.species[k].members = <<i>>
                    /\ call.result.species[k].representative = i
          /\ call.result.next_id =
                call.call.next_species_id + Cardinality(Unmatched(call))
          /\ \A k, l \in 1..Len(call.result.species) :
                call.result.species[k].id = call.result.species[l].id => k = l
    /\ (Len(spec_calls) = 2
        /\ spec_calls[2].call.next_species_id = spec_calls[1].result.next_id)
          => AllocatedIds(spec_calls[1]) \cap AllocatedIds(spec_calls[2]) = {}

\* a call that makes a new species, followed by a call on the returned
\* species and next_id that makes a new species again
C14_Witness ==
    /\ Len(spec_calls) = 2
    /\ spec_calls[2].call.next_species_id = spec_calls[1].result.next_id
    /\ Unmatched(spec_calls[1]) # {}
    /\ Unmatched(spec_calls[2]) # {}
    /\ spec_calls[2].result.next_id > spec_calls[1].result.next_id


FitnessOf(i) == At(genomes, i).fitness

\* C15: in every returned species the representative is one of its members,
\* no member has a higher fitness than the representative, and best_fitness is
\* the representative's fitness; so the candidate representative picked before
\* the assignment is the representative only when it is such a best member
C15_RepresentativeIsBestMember ==
    \A c \in SpeciateCalls :
        LET call == spec_calls[c] IN
        \A k \in 1..Len(call.result.species) :
            LET species == call.result.species[k] IN
            /\ species.representative \in Range(species.members)
            /\ \A m \in Range(species.members) :
                  ~(FitnessOf(m) > FitnessOf(species.representative))
            /\ species.best_fitness = FitnessOf(species.representative)

\* a returned species of several members whose representative is neither its
\* first member nor the candidate representative it started with
C15_Witness ==
    \E c \in SpeciateCalls :
        LET call == spec_calls[c] IN
        \E k \in 1..Len(call.result.species) :
            LET species == call.result.species[k] IN
            /\ Len(species.members) >= 2
            /\ species.members[1] # species.representative
            /\ \E q \in 1..Len(call.candidates) :
                  /\ call.candidates[q].id = species.id
                  /\ call.candidates[q].representative # species.representative
                  /\ call.candidates[q].representative \in Range(species.members)

(***************************************************************************)
(* Properties of neural_network.rs                                         *)
(***************************************************************************)
NnCalls(op) ==
    {k \in 1..Len(nn_calls) : nn_calls[k].op = op /\ nn_calls[k].outcome = "returned"}

\* the forward calls handed input_size values
WellFormed(call) == call.op = "forward" /\ Len(call.arg) = call.before.input_size

SameWeights(a, b) ==
    /\ a.weights_ih = b.weights_ih
    /\ a.bias_h = b.bias_h
    /\ a.weights_ho = b.weights_ho
    /\ a.bias_o = b.bias_o
    /\ a.weights_hh = b.weights_hh

\* C16: get_weights returns weights_ih, bias_h, weights_ho, bias_o and, with
\* memory enabled, weights_hh, in that order, get_weight_count values in all;
\* handing what it returned to set_weights leaves every weight vector as it was
C16_WeightsRoundTrip ==
    /\ \A k \in NnCalls("get_weights") :
          LET call == nn_calls[k]
              n == call.before IN
          /\ call.result = n.weights_ih \o n.bias_h \o n.weights_ho \o n.bias_o
                              \o (IF n.use_memory THEN n.weights_hh ELSE <<>>)
          /\ Len(call.result) = GetWeightCount(n)
    /\ \A k \in NnCalls("set_weights") :
          (k > 1 /\ nn_calls[k - 1].op = "get_weights"
                 /\ nn_calls[k].arg = nn_calls[k - 1].result)
              => SameWeights(nn_calls[k].after, nn_calls[k].before)

\* a network with memory, several hidden units and weights that all differ
\* was handed the weights it had just returned
C16_Witness ==
    \E k \in NnCalls("set_weights") :
        /\ k > 1
        /\ nn_calls[k - 1].op = "get_weights"
        /\ nn_calls[k].arg = nn_calls[k - 1].result
        /\ nn_calls[k].before.use_memory
        /\ nn_calls[k].before.hidden_size > 1
        /\ Cardinality(Range(nn_calls[k].arg)) = Len(nn_calls[k].arg)

\* C17: on a network with memory, forward leaves prev_hidden equal to the
\* hidden activations it has just computed, reset_memory leaves prev_hidden
\* all zeros, and a forward right after reset_memory returns what the same
\* forward returns on a copy of the network that was never evaluated
C17_MemoryFollowsHidden ==
    \A k \in 1..Len(nn_calls) :
        LET call == nn_calls[k] IN
        call.before.use_memory =>
            /\ k \in NnCalls("forward") =>
                  call.after.prev_hidden = call.after.hidden
            /\ WellFormed(call) =>
                  call.after.hidden =
                        [h \in 1..call.before.hidden_size |->
                            ForwardHidden(call.before, call.arg, h - 1)]
            /\ call.op = "reset_memory" =>
                  call.after.prev_hidden = Zeros(call.before.hidden_size)
            /\ (WellFormed(call) /\ k > 1 /\ nn_calls[k - 1].op = "reset_memory") =>
                  call.result = ForwardOf(CloneNetwork(call.before), call.arg).output

\* forward, reset_memory, forward on a network with memory, where the second
\* forward would have returned something else had the memory been kept
C17_Witness ==
    \E k \in NnCalls("forward") :
        /\ k > 2
        /\ nn_calls[k - 1].op = "reset_memory"
        /\ nn_calls[k - 2].op = "forward"
        /\ nn_calls[k].before.use_memory
        /\ WellFormed(nn_calls[k])
        /\ nn_calls[k].result # ForwardOf(nn_calls[k - 1].before, nn_calls[k].arg).output

\* inputs cut to input_size values, or filled up to it with zeros
PadOrTruncate(inp, input_size) ==
    [i \in 1..input_size |-> IF i <= Len(inp) THEN inp[i] ELSE Zero]

\* C21 (as stated): forward on an input vector of any length returns, and
\* returns what it returns on that vector cut or zero-filled to input_size
C21_Original_ForwardPadsInputs ==
    \A k \in 1..Len(nn_calls) :
        LET call == nn_calls[k] IN
        call.op = "forward" =>
            /\ call.outcome = "returned"
            /\ call.result =
                  ForwardOf(call.before, PadOrTruncate(call.arg, call.before.input_size)).output

\* C21: forward on input_size values returns; on more values it returns what
\* it returns on the first input_size of them, or panics
C21_ForwardOnLongerInputs ==
    \A k \in 1..Len(nn_calls) :
        LET call == nn_calls[k] IN
        (call.op = "forward" /\ Len(call.arg) >= call.before.input_size) =>
            \/ call.outcome = "panicked" /\ Len(call.arg) > call.before.input_size
            \/ /\ call.outcome = "returned"
               /\ call.result =
                     ForwardOf(call.before, PadOrTruncate(call.arg, call.before.input_size)).output

\* a forward on too few inputs that did not return, and one that returned
\* with a value that zero-filling does not give
C21_Witness ==
    \E k \in 1..Len(nn_calls), j \in 1..Len(nn_calls) :
        /\ nn_calls[k].op = "forward" /\ nn_calls[j].op = "forward"
        /\ Len(nn_calls[k].arg) < nn_calls[k].before.input_size
        /\ Len(nn_calls[j].arg) < nn_calls[j].before.input_size
        /\ nn_calls[k].outcome = "panicked"
        /\ nn_calls[j].outcome = "returned"
        /\ nn_calls[j].result #
              ForwardOf(nn_calls[j].before,
                        PadOrTruncate(nn_calls[j].arg, nn_calls[j].before.input_size)).output

(***************************************************************************)
(* Properties of neat_network.rs                                           *)
(***************************************************************************)
NeatCalls(op) == {k \in 1..Len(neat_calls) : neat_calls[k].op = op}

NodePlaces(args) == 0..(Len(args.node_ids) - 1)

\* the graph of the enabled connections between existing nodes
EnabledEdges(args) ==
    {<<Lookup(args.node_ids, args.conn_in_ids[c]), Lookup(args.node_ids, args.conn_out_ids[c])>>
        : c \in {d \in 1..Len(args.conn_in_ids) :
                    /\ args.conn_enabled[d] # 0
                    /\ Lookup(args.node_ids, args.conn_in_ids[d]) # -1
                    /\ Lookup(args.node_ids, args.conn_out_ids[d]) # -1}}

\* the same graph with the disabled connections taken as enabled
AllEdges(args) == EnabledEdges([args EXCEPT !.conn_enabled = [c \in DOMAIN @ |-> 1]])

RECURSIVE ReachFrom(_, _, _)
ReachFrom(S, edges, n) ==
    IF n = 0 THEN S
    ELSE ReachFrom(S \cup {e[2] : e \in {f \in edges : f[1] \in S}}, edges, n - 1)

Cyclic(edges, places) ==
    \E v \in places :
        v \in ReachFrom({e[2] : e \in {f \in edges : f[1] = v}}, edges, Cardinality(places))

PlaceIn(order, node) == CHOOSE k \in 1..Len(order) : order[k] = node

PlacesOfType(args, t) ==
    SelectSeq([i \in 1..Len(args.node_ids) |-> i - 1], LAMBDA i : At(args.node_types, i) = t)

\* the arguments without their disabled connections
WithoutDisabled(args) ==
    LET kept == SelectSeq([c \in 1..Len(args.conn_in_ids) |-> c],
                          LAMBDA c : args.conn_enabled[c] # 0)
    IN [args EXCEPT !.conn_in_ids = [k \in 1..Len(kept) |-> args.conn_in_ids[kept[k]]],
                    !.conn_out_ids = [k \in 1..Len(kept) |-> args.conn_out_ids[kept[k]]],
                    !.conn_weights = [k \in 1..Len(kept) |-> args.conn_weights[kept[k]]],
                    !.conn_enabled = [k \in 1..Len(kept) |-> 1]]

\* C18: the evaluation order create builds holds every node exactly once; when
\* the graph of enabled connections is acyclic every connection's source comes
\* before its target; when it has a cycle the order is inputs, hidden nodes,
\* outputs, each in listing order; disabled connections change neither
C18_EvaluationOrder ==
    neat_calls # <<>> =>
        LET args == neat_calls[1].arg
            order == neat_calls[1].after.node_order
            edges == EnabledEdges(args)
        IN /\ Len(order) = Len(args.node_ids)
           /\ Range(order) = NodePlaces(args)
           /\ ~Cyclic(edges, NodePlaces(args)) =>
                 \A e \in edges : PlaceIn(order, e[1]) < PlaceIn(order, e[2])
           /\ Cyclic(edges, NodePlaces(args)) =>
                 order = PlacesOfType(args, 0) \o PlacesOfType(args, 1) \o PlacesOfType(args, 2)
           /\ order = Compile(WithoutDisabled(args)).node_order

\* an acyclic network whose listing order is not an evaluation order and
\* whose disabled connections would close a cycle
C18_Witness ==
    /\ neat_calls # <<>>
    /\ LET args == neat_calls[1].arg
           edges == EnabledEdges(args)
       IN /\ ~Cyclic(edges, NodePlaces(args))
          /\ Cyclic(AllEdges(args), NodePlaces(args))
          /\ \E e \in edges : e[1] > e[2]
          /\ neat_calls[1].after.node_order # [i \in 1..Len(args.node_ids) |-> i - 1]

\* a network with a cycle of enabled connections, compiled to the order by type
C18_WitnessCycle ==
    /\ neat_calls # <<>>
    /\ Cyclic(EnabledEdges(neat_calls[1].arg), NodePlaces(neat_calls[1].arg))

\* C19: forward takes inputs of any length: the i-th input node is given
\* inputs[i], or 0 when there is no such element, further elements are
\* ignored, and the result holds the activation of every output node in the
\* order the output nodes were listed
C19_ForwardInputsOutputs ==
    \A k \in NeatCalls("forward") :
        LET call == neat_calls[k]
            args == neat_calls[1].arg
            ins == PlacesOfType(args, 0)
            outs == PlacesOfType(args, 2)
        IN /\ \A i \in 1..Len(ins) :
                 At(call.after.activations, ins[i]) =
                    IF i <= Len(call.arg) THEN call.arg[i] ELSE Zero
           /\ Len(call.result) = Len(outs)
           /\ \A i \in 1..Len(outs) : call.result[i] = At(call.after.activations, outs[i])
           /\ Len(call.arg) > Len(ins) =>
                 call.result =
                    NeatForwardOf(call.before, SubSeq(call.arg, 1, Len(ins))).cached_outputs

\* a network with two input nodes was evaluated on fewer and on more inputs
\* than that, and its output depends on an input node
C19_Witness ==
    \E k1 \in NeatCalls("forward"), k2 \in NeatCalls("forward") :
        LET ins == PlacesOfType(neat_calls[1].arg, 0) IN
        /\ Len(ins) = 2
        /\ Len(neat_calls[k1].arg) < Len(ins)
        /\ Len(neat_calls[k2].arg) > Len(ins)
        /\ neat_calls[k1].result # neat_calls[k2].result

\* C20: reset sets every activation to 0 and changes nothing else, and a
\* forward right after reset returns what the first forward on a freshly
\* compiled network returns for the same inputs, whatever was evaluated before
C20_ResetRestoresFresh ==
    /\ \A k \in NeatCalls("reset") :
          LET call == neat_calls[k] IN
          /\ call.after.activations = Zeros(Len(neat_calls[1].arg.node_ids))
          /\ [call.after EXCEPT !.activations = call.before.activations] = call.before
    /\ \A k \in NeatCalls("forward") :
          (k > 1 /\ neat_calls[k - 1].op = "reset") =>
              neat_calls[k].result =
                 NeatForwardOf(Compile(neat_calls[1].arg), neat_calls[k].arg).cached_outputs

\* forward, reset, forward on a network with a cycle, where the second
\* forward would have returned something else without the reset
C20_Witness ==
    \E k \in NeatCalls("forward") :
        /\ k > 2
        /\ neat_calls[k - 1].op = "reset"
        /\ neat_calls[k - 2].op = "forward"
        /\ Cyclic(EnabledEdges(neat_calls[1].arg), NodePlaces(neat_calls[1].arg))
        /\ neat_calls[k].result
              # NeatForwardOf(neat_calls[k - 1].before, neat_calls[k].arg).cached_outputs

\* the gene records a genome's connections Array refers to, as they are in heap
GeneRecords(heap, genome) == [k \in 1..Len(genome.connections) |-> heap[genome.connections[k]]]

\* crossover has bred a child and mutate was then called on that child
ChildMutated ==
    /\ cross_call.called
    /\ mut_call.called
    /\ mut_call.genome = cross_call.child

\* C27 (as stated): after crossover(A, B) -> child and mutate(child) the
\* connections of A and B, their weights and enabled flags are what they were
\* before the crossover
C27_Original_ParentsUntouched ==
    ChildMutated =>
        /\ GeneRecords(gene_heap, genomes[cross_call.a])
              = GeneRecords(cross_call.heap, cross_call.parent_a)
        /\ GeneRecords(gene_heap, genomes[cross_call.b])
              = GeneRecords(cross_call.heap, cross_call.parent_b)

\* C27: crossover itself changes neither parent nor any gene record, and
\* mutate(child) leaves the parents' connections Arrays as they were
C27_CrossoverLeavesParents ==
    cross_call.called =>
        /\ genomes[cross_call.a].connections = cross_call.parent_a.connections
        /\ genomes[cross_call.b].connections = cross_call.parent_b.connections
        /\ ~mut_call.called =>
              /\ gene_heap = cross_call.heap
              /\ genomes[cross_call.a] = cross_call.parent_a
              /\ genomes[cross_call.b] = cross_call.parent_b

\* mutate(child) changed the weight of a gene record that parent A refers to
C27_Witness ==
    /\ ChildMutated
    /\ \E k \in 1..Len(cross_call.parent_a.connections) :
          gene_heap[cross_call.parent_a.connections[k]].weight
             # cross_call.heap[cross_call.parent_a.connections[k]].weight

(***************************************************************************)
(* Properties of nsga2.rs: crowding_distance                               *)
(***************************************************************************)
CrowdingReturned ==
    /\ op_call.op = "crowding_distance"
    /\ op_call.returned
    /\ op_call.outcome = "returned"

\* C26: crowding_distance on a front of 0, 1 or 2 members returns, and its
\* result has an entry for every member of the front, each of them infinity.
C26_SmallFrontAllInfinite ==
    (op_call.op = "crowding_distance" /\ op_call.returned /\ Len(op_call.front) <= 2)
      => /\ op_call.outcome = "returned"
         /\ \A k \in 1..Len(op_call.front) :
               /\ op_call.front[k] \in DOMAIN op_call.result
               /\ op_call.result[op_call.front[k]].inf

C26_Witness ==
    /\ CrowdingReturned
    /\ Len(op_call.front) = 2
    /\ op_call.front[1] # op_call.front[2]

\* the values of objective m over the members of the front
FrontValues(m) ==
    {At(op_call.objectives, op_call.front[k])[m] : k \in 1..Len(op_call.front)}

ZeroRange(m) == Cardinality(FrontValues(m)) = 1

\* C29 as stated: on a front of more than two members an objective whose
\* range over the front is 0 marks no member as an infinite-distance
\* boundary, so a member with an infinite distance is at the least or the
\* greatest value of some objective whose range is not 0.
C29_Original_ZeroRangeSkipped ==
    (CrowdingReturned /\ Len(op_call.front) > 2)
      => \A idx \in Range(op_call.front) :
            op_call.result[idx].inf
              => \E m \in 1..3 :
                    /\ ~ZeroRange(m)
                    /\ \/ \A v \in FrontValues(m) : At(op_call.objectives, idx)[m] <= v
                       \/ \A v \in FrontValues(m) : At(op_call.objectives, idx)[m] >= v

\* what the code does keep: an objective of range 0 adds no quotient, so a
\* finite distance is the sum of one quotient per objective of non-zero range
C29_ZeroRangeAddsNoQuotient ==
    (CrowdingReturned /\ Len(op_call.front) > 2)
      => \A idx \in Range(op_call.front) :
            ~op_call.result[idx].inf
              => Len(op_call.result[idx].sum)
                   = Cardinality({m \in 1..3 : ~ZeroRange(m)})

\* a front of three distinct members with an objective of range 0 on which
\* the first-listed member is made infinite though it is interior elsewhere
C29_Witness ==
    /\ CrowdingReturned
    /\ Len(op_call.front) = 3
    /\ Cardinality(Range(op_call.front)) = 3
    /\ ZeroRange(3)
    /\ ~ZeroRange(1)
    /\ op_call.result[op_call.front[1]].inf
    /\ \E v, w \in FrontValues(1) :
          /\ v < At(op_call.objectives, op_call.front[1])[1]
          /\ At(op_call.objectives, op_call.front[1])[1] < w

(***************************************************************************)
(* Properties of the tournament selections                                 *)
(***************************************************************************)
FlatSingle == op_call.op = "tournament_select"

FlatBatched ==
    op_call.op \in {"batch_tournament_select", "batch_tournament_select_packed"}

ParetoCall == op_call.op = "nsga2_tournament_select"

\* the population of the call, as entries [index, fitness]
Entries ==
    IF op_call.op = "batch_tournament_select_packed"
    THEN [k \in 1..Len(op_call.fitness) |->
             [index |-> k - 1, fitness |-> op_call.fitness[k]]]
    ELSE op_call.indexed_fitness

EntriesSize == IF ParetoCall THEN op_call.pop_size ELSE Len(Entries)

\* the indices a caller can use for a member of the population
EntryIndices ==
    IF ParetoCall THEN 0..(op_call.pop_size - 1)
    ELSE {Entries[k].index : k \in 1..Len(Entries)}

\* C22: a tournament selection on an empty population returns without
\* failing; the single selections of genetic_ops.rs and of nsga2.rs return a
\* value that is not an index of the population, and the batched selections
\* return an empty array.
C22_EmptyPopulationSentinel ==
    (op_call.op \in {"tournament_select", "batch_tournament_select",
                          "batch_tournament_select_packed", "nsga2_tournament_select"}
       /\ op_call.returned /\ EntriesSize = 0)
      => /\ op_call.outcome = "returned"
         /\ (FlatSingle \/ ParetoCall) => op_call.result \notin EntryIndices
         /\ FlatSingle => op_call.result < 0
         /\ FlatBatched => op_call.result = <<>>

C22_Witness ==
    /\ op_call.op = "batch_tournament_select"
    /\ op_call.returned
    /\ Len(op_call.indexed_fitness) = 0
    /\ op_call.count > 0
    /\ op_call.result = <<>>

\* the winner w of a tournament with the draws d is the index of a sampled
\* entry whose fitness is not lower than that of any other sampled entry
BestOfSampled(w, d) ==
    \E k \in 1..Len(d) :
       /\ At(Entries, d[k]).index = w
       /\ \A l \in 1..Len(d) :
             ~FloatGt(At(Entries, d[l]).fitness, At(Entries, d[k]).fitness)

ClampedSize ==
    LET n == Len(Entries)
        floor == IF op_call.tournament_size > 2 THEN op_call.tournament_size ELSE 2
    IN  IF floor < n THEN floor ELSE n

FlatReturned ==
    /\ (FlatSingle \/ FlatBatched)
    /\ op_call.returned
    /\ op_call.outcome = "returned"
    /\ Len(Entries) >= 1
    /\ FlatBatched => op_call.count > 0

\* C23 as stated: on a non-empty population every flat tournament samples
\* min(max(tournament_size, 2), n) entries and returns the index of a sampled
\* entry of greatest fitness; a batched call with count > 0 returns exactly
\* count such winners.
C23_Original_WinnerIsSampledBest ==
    FlatReturned
      => IF FlatSingle
         THEN /\ Len(op_call.draws) = ClampedSize
              /\ BestOfSampled(op_call.result, op_call.draws)
              /\ op_call.result \in EntryIndices
         ELSE /\ Len(op_call.result) = op_call.count
              /\ \A c \in 1..op_call.count :
                    /\ Len(op_call.draws[c]) = ClampedSize
                    /\ BestOfSampled(op_call.result[c], op_call.draws[c])
                    /\ op_call.result[c] \in EntryIndices

\* some sampled entry has a fitness above f32::NEG_INFINITY
SomeAboveFloor(d) ==
    \E k \in 1..Len(d) : FloatGt(At(Entries, d[k]).fitness, NegInfinity)

\* what the code does keep: the sizes, and the winner whenever a sampled
\* entry has a fitness above NEG_INFINITY
C23_WinnerWhenAboveFloor ==
    FlatReturned
      => IF FlatSingle
         THEN /\ Len(op_call.draws) = ClampedSize
              /\ SomeAboveFloor(op_call.draws)
                   => BestOfSampled(op_call.result, op_call.draws)
         ELSE /\ Len(op_call.result) = op_call.count
              /\ \A c \in 1..op_call.count :
                    /\ Len(op_call.draws[c]) = ClampedSize
                    /\ SomeAboveFloor(op_call.draws[c])
                         => BestOfSampled(op_call.result[c], op_call.draws[c])

\* a tournament over entries of fitness NEG_INFINITY that returned -1
C23_Witness ==
    /\ FlatSingle
    /\ op_call.returned
    /\ Len(Entries) = 2
    /\ \A k \in 1..2 : Entries[k].fitness = NegInfinity
    /\ op_call.result = -1
    /\ op_call.result \notin EntryIndices

ParetoReturned ==
    /\ ParetoCall
    /\ op_call.returned
    /\ op_call.pop_size >= 1
    /\ Len(op_call.rank_map) = op_call.pop_size
    /\ DOMAIN op_call.crowding = 0..(op_call.pop_size - 1)

\* C24: on a population of n >= 1 with a rank and a crowding distance for
\* every index, tournament_select of nsga2.rs returns an index in 0..n-1 that
\* is one of the two drawn candidates, which differ when n > 1: the one of
\* lower rank; on equal ranks the one of higher crowding distance; on equal
\* crowding distances the first-drawn one.
C24_CrowdedTournament ==
    ParetoReturned
      => /\ op_call.outcome = "returned"
         /\ Len(op_call.draws) = 2
         /\ LET a == op_call.draws[1]
                b == op_call.draws[2]
                rank_a == op_call.rank_map[a + 1]
                rank_b == op_call.rank_map[b + 1]
                cd_a == op_call.crowding[a]
                cd_b == op_call.crowding[b]
                won == op_call.result
            IN  /\ won \in 0..(op_call.pop_size - 1)
                /\ won \in {a, b}
                /\ op_call.pop_size > 1 => a # b
                /\ rank_a < rank_b => won = a
                /\ rank_b < rank_a => won = b
                /\ (rank_a = rank_b /\ FloatGt(cd_a, cd_b)) => won = a
                /\ (rank_a = rank_b /\ FloatGt(cd_b, cd_a)) => won = b
                /\ (rank_a = rank_b /\ cd_a = cd_b) => won = a

\* equal ranks and equal crowding distances, the first-drawn candidate being
\* the one of higher index
C24_Witness ==
    /\ ParetoReturned
    /\ op_call.outcome = "returned"
    /\ op_call.pop_size = 3
    /\ op_call.draws[1] > op_call.draws[2]
    /\ op_call.rank_map[op_call.draws[1] + 1] = op_call.rank_map[op_call.draws[2] + 1]
    /\ op_call.crowding[op_call.draws[1]] = op_call.crowding[op_call.draws[2]]
    /\ op_call.result = op_call.draws[1]

(***************************************************************************)
(* Properties of the flat crossovers                                       *)
(***************************************************************************)
CrossCall == op_call.op \in {"crossover_weights", "batch_crossover", "crossover_with"}

CrossReturned == CrossCall /\ op_call.returned /\ op_call.outcome = "returned"

\* the flat vectors of the two parents
ParentA == IF op_call.op = "crossover_with" THEN GetWeights(nn) ELSE op_call.weights_a

ParentB ==
    IF op_call.op = "crossover_with" THEN GetWeights(op_call.other)
    ELSE op_call.weights_b

SharedLength == IF Len(ParentA) < Len(ParentB) THEN Len(ParentA) ELSE Len(ParentB)

\* the children returned, as flat vectors, each with the draws it was cut by
Children ==
    IF op_call.op = "batch_crossover"
    THEN {[child |-> op_call.result[c], draw |-> op_call.draws[c]] :
             c \in 1..Len(op_call.result)}
    ELSE IF op_call.op = "crossover_with"
    THEN {[child |-> GetWeights(op_call.result), draw |-> op_call.draws]}
    ELSE {[child |-> op_call.result, draw |-> op_call.draws]}

\* child takes B on the places p1 <= i < p2 and A on every other place below len
CutAt(child, p1, p2, len) ==
    \A i \in 0..(len - 1) :
       At(child, i) = IF p1 <= i /\ i < p2 THEN At(ParentB, i) ELSE At(ParentA, i)

DrawnOver ==
    IF op_call.op = "crossover_with" THEN Len(ParentA) ELSE SharedLength

=============================================================================
